---- MODULE Spec2Model ----
(***************************************************************************)
(* Block validation and chain-state management of src/validation.cpp:      *)
(* the UTXO effects of ConnectBlock / DisconnectBlock, the block index,    *)
(* the candidate set and the ActivateBestChain state machine.              *)
(***************************************************************************)
EXTENDS Integers, Sequences, FiniteSets, TLC

(***************************************************************************)
(* Consensus constants                                                     *)
(***************************************************************************)
COINBASE_MATURITY == 100

\* consensus.h: zerocoin transactions are refused above this height
HF_ZEROCOIN_DISABLE == 266765

\* validity levels of CBlockIndex::nStatus & BLOCK_VALID_MASK
BLOCK_VALID_UNKNOWN == 0
BLOCK_VALID_TREE == 2
BLOCK_VALID_TRANSACTIONS == 3
BLOCK_VALID_CHAIN == 4
BLOCK_VALID_SCRIPTS == 5

(***************************************************************************)
(* Transactions, outpoints and coins                                       *)
(*   outpoint  <<txid, n>>, n counted from 0                               *)
(*   txout     [nValue, unspendable]                                       *)
(*   coin      [out, nHeight, fCoinBase]                                   *)
(*   tx        [hash, kind, vin, vout, scriptOk, bip68Final]               *)
(*   a view is a function from the unspent outpoints to their coins        *)
(***************************************************************************)
NullOutpoint == <<"null", 0>>

TxOut(v, u) == [nValue |-> v, unspendable |-> u]

Coin(out, h, cb) == [out |-> out, nHeight |-> h, fCoinBase |-> cb]

Tx(h, k, in, outs, sok) ==
    [hash |-> h, kind |-> k, vin |-> in, vout |-> outs, scriptOk |-> sok, bip68Final |-> TRUE]

IsCoinBase(tx) == tx.kind = "coinbase"

IsZerocoinSpend(tx) == tx.kind = "zerocoin"

\* v named x in the body F: a value computed once and used several times
Let(v, F(_)) == F(v)

EmptyView == [o \in {} |-> 0]

HaveCoin(view, o) == o \in DOMAIN view

RemoveCoin(view, o) == [p \in (DOMAIN view) \ {o} |-> view[p]]

PutCoin(view, o, c) == [p \in (DOMAIN view) \cup {o} |-> IF p = o THEN c ELSE view[p]]

\* CCoinsViewCache::AddCoin throws std::logic_error in this case
AddCoinThrows(view, o, c, possible_overwrite) ==
    /\ ~c.out.unspendable
    /\ ~possible_overwrite
    /\ HaveCoin(view, o)

AddCoin(view, o, c, possible_overwrite) ==
    IF c.out.unspendable THEN view ELSE PutCoin(view, o, c)

RECURSIVE SumValues(_, _)
SumValues(outs, i) ==
    IF i > Len(outs) THEN 0 ELSE outs[i].nValue + SumValues(outs, i + 1)

GetValueOut(tx) == SumValues(tx.vout, 1)

RECURSIVE ValueInFrom(_, _, _)
ValueInFrom(view, vin, j) ==
    IF j > Len(vin) THEN 0 ELSE view[vin[j]].out.nValue + ValueInFrom(view, vin, j + 1)

HaveInputs(view, tx) ==
    IsCoinBase(tx) \/ \A j \in 1..Len(tx.vin) : HaveCoin(view, tx.vin[j])

\* AccessByTxid: some unspent output of the transaction, if there is one
HasAlternate(view, txid) == \E o \in DOMAIN view : o[1] = txid

AccessByTxid(view, txid) ==
    view[CHOOSE o \in DOMAIN view :
             /\ o[1] = txid
             /\ \A p \in DOMAIN view : p[1] = txid => o[2] <= p[2]]

(***************************************************************************)
(* Consensus::CheckTxInputs: the reject reason, "" when the inputs pass    *)
(***************************************************************************)
\* a CheckTxInputs that takes a coinbase for mature one block early
CheckTxInputsEarly(tx, view, nSpendHeight) ==
    IF ~HaveInputs(view, tx) THEN "Inputs unavailable"
    ELSE IF \E j \in 1..Len(tx.vin) :
                 /\ view[tx.vin[j]].fCoinBase
                 /\ nSpendHeight - view[tx.vin[j]].nHeight < COINBASE_MATURITY - 1
         THEN "bad-txns-premature-spend-of-coinbase"
    ELSE IF ValueInFrom(view, tx.vin, 1) < GetValueOut(tx) THEN "bad-txns-in-belowout"
    ELSE ""

CheckTxInputs(tx, view, nSpendHeight) ==
    IF ~HaveInputs(view, tx) THEN "Inputs unavailable"
    ELSE IF \E j \in 1..Len(tx.vin) :
                 /\ view[tx.vin[j]].fCoinBase
                 /\ nSpendHeight - view[tx.vin[j]].nHeight < COINBASE_MATURITY
         THEN "bad-txns-premature-spend-of-coinbase"
    ELSE IF ValueInFrom(view, tx.vin, 1) < GetValueOut(tx) THEN "bad-txns-in-belowout"
    ELSE ""

\* CheckInputs: cheap checks first, then the script of every input
CheckInputs(tx, view, nSpendHeight) ==
    IF IsCoinBase(tx) \/ IsZerocoinSpend(tx) THEN ""
    ELSE Let(CheckTxInputs(tx, view, nSpendHeight),
             LAMBDA reason :
                 IF reason # "" THEN reason
                 ELSE IF ~tx.scriptOk THEN "mandatory-script-verify-flag-failed"
                 ELSE "")

(***************************************************************************)
(* UpdateCoins: spend the inputs into the undo record, add the outputs     *)
(***************************************************************************)
RECURSIVE SpendInputs(_, _, _, _)
SpendInputs(view, vin, j, txundo) ==
    IF j > Len(vin) THEN [view |-> view, txundo |-> txundo]
    ELSE SpendInputs(RemoveCoin(view, vin[j]), vin, j + 1, Append(txundo, view[vin[j]]))

RECURSIVE AddCoins(_, _, _, _)
AddCoins(view, tx, nHeight, i) ==
    IF i > Len(tx.vout) THEN [view |-> view, threw |-> FALSE]
    ELSE IF AddCoinThrows(view, <<tx.hash, i - 1>>,
                          Coin(tx.vout[i], nHeight, IsCoinBase(tx)), IsCoinBase(tx))
    THEN [view |-> view, threw |-> TRUE]
    ELSE AddCoins(AddCoin(view, <<tx.hash, i - 1>>,
                          Coin(tx.vout[i], nHeight, IsCoinBase(tx)), IsCoinBase(tx)),
                  tx, nHeight, i + 1)

UpdateCoinsSpendsInputs(tx) == ~IsCoinBase(tx) /\ ~IsZerocoinSpend(tx)

UpdateCoins(tx, view, nHeight) ==
    Let(IF UpdateCoinsSpendsInputs(tx)
        THEN SpendInputs(view, tx.vin, 1, <<>>)
        ELSE [view |-> view, txundo |-> <<>>],
        LAMBDA sp :
            Let(AddCoins(sp.view, tx, nHeight, 1),
                LAMBDA ad : [view |-> ad.view, txundo |-> sp.txundo, threw |-> ad.threw]))

(***************************************************************************)
(* CheckTransaction / CheckBlock: the context-free checks that the model   *)
(* can compute from the body; block.checkBlock carries the verdict of the  *)
(* opaque ones (proof of work, merkle root, sizes, sigops)                 *)
(***************************************************************************)
CheckTransaction(tx, nHeight) ==
    /\ ~(nHeight > HF_ZEROCOIN_DISABLE /\ IsZerocoinSpend(tx))
    /\ Len(tx.vin) > 0
    /\ Len(tx.vout) > 0
    /\ \A i, j \in 1..Len(tx.vin) : tx.vin[i] = tx.vin[j] => i = j
    /\ tx.kind = "normal" => \A j \in 1..Len(tx.vin) : tx.vin[j] # NullOutpoint

CheckBlock(block) ==
    IF block.checkBlock # "ok" THEN block.checkBlock
    ELSE IF Len(block.vtx) = 0 \/ ~IsCoinBase(block.vtx[1]) THEN "invalid"
    ELSE IF \E i \in 2..Len(block.vtx) : IsCoinBase(block.vtx[i]) THEN "invalid"
    ELSE IF \E i \in 1..Len(block.vtx) : ~CheckTransaction(block.vtx[i], block.nHeight) THEN "invalid"
    ELSE "ok"

(***************************************************************************)
(* ConnectBlock                                                            *)
(*   block   [hash, nHeight, vtx, checkBlock, bip30Exempt, miningOk]       *)
(*   pindex  [hash, prev, nHeight, isGenesis, valid, haveUndo,             *)
(*            failedValid, failedChild, ...]                               *)
(*   result  [state, reason, view, best, blockundo, pindex]; state is      *)
(*           "ok", "invalid", "corrupt" (invalid, corruption possible),    *)
(*           "rejected" (SmartMining::Validate refused the payments) or    *)
(*           "error" (system error)                                        *)
(***************************************************************************)
Bip30Violation(block, view) ==
    \E i \in 1..Len(block.vtx) : \E o \in 1..Len(block.vtx[i].vout) :
        HaveCoin(view, <<block.vtx[i].hash, o - 1>>)

\* the checks of one transaction of the loop: the reject reason or ""
ConnectTxReason(tx, view, nHeight) ==
    IF IsCoinBase(tx) \/ IsZerocoinSpend(tx) THEN ""
    ELSE IF ~HaveInputs(view, tx) THEN "bad-txns-inputs-missingorspent"
    ELSE IF ~tx.bip68Final THEN "bad-txns-nonfinal"
    ELSE CheckInputs(tx, view, nHeight)

RECURSIVE ConnectTxs(_, _, _, _, _)
ConnectTxs(block, nHeight, i, view, blockundo) ==
    IF i > Len(block.vtx)
    THEN [state |-> "ok", reason |-> "", view |-> view, blockundo |-> blockundo]
    ELSE Let(ConnectTxReason(block.vtx[i], view, nHeight),
             LAMBDA reason :
                 IF reason # ""
                 THEN [state |-> "invalid", reason |-> reason, view |-> view,
                       blockundo |-> blockundo]
                 ELSE Let(UpdateCoins(block.vtx[i], view, nHeight),
                          LAMBDA uc :
                              IF uc.threw
                              THEN [state |-> "error", reason |-> "logic_error", view |-> view,
                                    blockundo |-> blockundo]
                              ELSE ConnectTxs(block, nHeight, i + 1, uc.view,
                                              IF i > 1 THEN Append(blockundo, uc.txundo)
                                              ELSE blockundo)))

\* nStatus & BLOCK_FAILED_MASK
Failed(pindex) == pindex.failedValid \/ pindex.failedChild

IsValid(pindex, nUpTo) == ~Failed(pindex) /\ pindex.valid >= nUpTo

RaiseValidity(pindex, nUpTo) ==
    IF Failed(pindex) THEN pindex
    ELSE IF pindex.valid < nUpTo THEN [pindex EXCEPT !.valid = nUpTo]
    ELSE pindex

\* the result of a ConnectBlock that did not go through
ConnectFail(st, rs, pindex, view, best) ==
    [state |-> st, reason |-> rs, view |-> view, best |-> best,
     blockundo |-> <<>>, pindex |-> pindex]

\* a ConnectBlock that goes on to the undo data and the index entry although
\* it is only asked to check
ConnectBlockFinishAlways(block, pindex, view, best, fJustCheck, undoWriteOk, txs) ==
    IF txs.state # "ok" THEN ConnectFail(txs.state, txs.reason, pindex, view, best)
    ELSE IF ~block.miningOk THEN ConnectFail("rejected", "smart-mining", pindex, view, best)
    ELSE [state |-> "ok", reason |-> "", view |-> txs.view, best |-> pindex.hash,
          blockundo |-> txs.blockundo,
          pindex |-> RaiseValidity([pindex EXCEPT !.haveUndo = TRUE], BLOCK_VALID_SCRIPTS)]

\* after the transaction loop: payments, fJustCheck, undo data, best block
ConnectBlockFinish(block, pindex, view, best, fJustCheck, undoWriteOk, txs) ==
    IF txs.state # "ok" THEN ConnectFail(txs.state, txs.reason, pindex, view, best)
    ELSE IF ~block.miningOk THEN ConnectFail("rejected", "smart-mining", pindex, view, best)
    ELSE IF fJustCheck THEN ConnectFail("ok", "", pindex, view, best)
    ELSE IF ~pindex.haveUndo /\ ~undoWriteOk
    THEN ConnectFail("error", "undo-write", pindex, view, best)
    ELSE [state |-> "ok", reason |-> "", view |-> txs.view, best |-> pindex.hash,
          blockundo |-> txs.blockundo,
          pindex |-> IF ~pindex.haveUndo \/ ~IsValid(pindex, BLOCK_VALID_SCRIPTS)
                     THEN RaiseValidity([pindex EXCEPT !.haveUndo = TRUE], BLOCK_VALID_SCRIPTS)
                     ELSE pindex]

ConnectBlock(block, pindex, view, best, fJustCheck, undoWriteOk) ==
    Let(CheckBlock(block),
        LAMBDA chk :
            IF chk # "ok" THEN ConnectFail(chk, "check-block", pindex, view, best)
            ELSE IF pindex.isGenesis
            THEN ConnectFail("ok", "", pindex, view, IF fJustCheck THEN best ELSE pindex.hash)
            ELSE IF ~block.bip30Exempt /\ Bip30Violation(block, view)
            THEN ConnectFail("invalid", "bad-txns-BIP30", pindex, view, best)
            ELSE ConnectBlockFinish(block, pindex, view, best, fJustCheck, undoWriteOk,
                                    ConnectTxs(block, pindex.nHeight, 1, view, <<>>)))

(***************************************************************************)
(* ApplyTxInUndo and DisconnectBlock                                       *)
(***************************************************************************)
\* the undo record with the metadata of an old-format record filled in
FillUndo(undo, alternate) ==
    [undo EXCEPT !.nHeight = alternate.nHeight, !.fCoinBase = alternate.fCoinBase]

ApplyUndoCoin(undo, view, out) ==
    IF AddCoinThrows(view, out, undo, undo.fCoinBase)
    THEN [res |-> "FAILED", view |-> view]
    ELSE [res |-> IF HaveCoin(view, out) THEN "UNCLEAN" ELSE "OK",
          view |-> AddCoin(view, out, undo, undo.fCoinBase)]

ApplyTxInUndo(undo, view, out) ==
    IF undo.nHeight # 0 THEN ApplyUndoCoin(undo, view, out)
    ELSE IF ~HasAlternate(view, out[1]) THEN [res |-> "FAILED", view |-> view]
    ELSE ApplyUndoCoin(FillUndo(undo, AccessByTxid(view, out[1])), view, out)

\* the coin at out matches the output o of tx created at nHeight
OutputMatches(tx, o, view, nHeight) ==
    /\ HaveCoin(view, <<tx.hash, o - 1>>)
    /\ view[<<tx.hash, o - 1>>].out = tx.vout[o]
    /\ view[<<tx.hash, o - 1>>].nHeight = nHeight
    /\ view[<<tx.hash, o - 1>>].fCoinBase = IsCoinBase(tx)

RECURSIVE SpendOutputs(_, _, _, _, _)
SpendOutputs(tx, o, view, fClean, nHeight) ==
    IF o > Len(tx.vout) THEN [view |-> view, fClean |-> fClean]
    ELSE IF tx.vout[o].unspendable THEN SpendOutputs(tx, o + 1, view, fClean, nHeight)
    ELSE SpendOutputs(tx, o + 1, RemoveCoin(view, <<tx.hash, o - 1>>),
                      fClean /\ OutputMatches(tx, o, view, nHeight), nHeight)

RECURSIVE RestoreInputs(_, _, _, _, _)
RestoreInputs(tx, txundo, j, view, fClean) ==
    IF j = 0 THEN [res |-> "OK", view |-> view, fClean |-> fClean]
    ELSE Let(ApplyTxInUndo(txundo[j], view, tx.vin[j]),
             LAMBDA r :
                 IF r.res = "FAILED" THEN [res |-> "FAILED", view |-> view, fClean |-> FALSE]
                 ELSE RestoreInputs(tx, txundo, j - 1, r.view, fClean /\ r.res # "UNCLEAN"))

\* the transactions whose inputs DisconnectBlock restores from the undo data
DisconnectRestoresInputs(block, i) == i > 1

RECURSIVE DisconnectTxs(_, _, _, _, _, _)
DisconnectTxs(block, blockUndo, nHeight, i, view, fClean) ==
    IF i = 0 THEN [res |-> IF fClean THEN "OK" ELSE "UNCLEAN", view |-> view]
    ELSE Let(SpendOutputs(block.vtx[i], 1, view, fClean, nHeight),
             LAMBDA so :
                 IF ~DisconnectRestoresInputs(block, i)
                 THEN DisconnectTxs(block, blockUndo, nHeight, i - 1, so.view, so.fClean)
                 ELSE IF Len(blockUndo[i - 1]) # Len(block.vtx[i].vin)
                 THEN [res |-> "FAILED", view |-> so.view]
                 ELSE Let(RestoreInputs(block.vtx[i], blockUndo[i - 1],
                                        Len(block.vtx[i].vin), so.view, so.fClean),
                          LAMBDA ri :
                              IF ri.res = "FAILED" THEN [res |-> "FAILED", view |-> ri.view]
                              ELSE DisconnectTxs(block, blockUndo, nHeight, i - 1,
                                                 ri.view, ri.fClean)))

\* the best block moves to the parent only when the loop completes
DisconnectBlockFinish(pindex, best, r) ==
    [res |-> r.res, view |-> r.view, best |-> IF r.res = "FAILED" THEN best ELSE pindex.prev]

\* undoReadOk: UndoReadFromDisk finds the record and its checksum matches
DisconnectBlock(block, pindex, view, best, blockUndo, undoReadOk) ==
    IF ~pindex.haveUndo \/ ~undoReadOk \/ Len(blockUndo) + 1 # Len(block.vtx)
    THEN [res |-> "FAILED", view |-> view, best |-> best]
    ELSE DisconnectBlockFinish(pindex, best,
             DisconnectTxs(block, blockUndo, pindex.nHeight, Len(block.vtx), view, TRUE))

(***************************************************************************)
(* The block tree.  Headers are identified by their hash; pprev, nHeight   *)
(* and nChainWork are fixed by the header, so they are functions of it.    *)
(*                                                                         *)
(*        G - H1 - H2  - H3                                                *)
(*               \ H2p - H3p          (H3p carries twice the proof)        *)
(***************************************************************************)
Blocks == {"G", "H1", "H2", "H3", "H2p", "H3p"}

NoBlock == "none"

hashGenesisBlock == "G"

pprev ==
    [b \in Blocks |->
        CASE b = "G" -> NoBlock
          [] b = "H1" -> "G"
          [] b = "H2" -> "H1"
          [] b = "H3" -> "H2"
          [] b = "H2p" -> "H1"
          [] b = "H3p" -> "H2p"]

\* allocation order of the index entries, for the pointer tie-break
Addr ==
    [b \in Blocks |->
        CASE b = "G" -> 0
          [] b = "H1" -> 1
          [] b = "H2" -> 2
          [] b = "H3" -> 3
          [] b = "H2p" -> 4
          [] b = "H3p" -> 5]

GetBlockProof == [b \in Blocks |-> IF b = "H3p" THEN 2 ELSE 1]

RECURSIVE nHeight(_)
nHeight(b) == IF pprev[b] = NoBlock THEN 0 ELSE 1 + nHeight(pprev[b])

RECURSIVE nChainWork(_)
nChainWork(b) ==
    IF pprev[b] = NoBlock THEN GetBlockProof[b] ELSE nChainWork(pprev[b]) + GetBlockProof[b]

\* b and all its ancestors
RECURSIVE AncestorsOf(_)
AncestorsOf(b) == IF b = NoBlock THEN {} ELSE {b} \cup AncestorsOf(pprev[b])

GetAncestor(b, h) ==
    IF h < 0 \/ h > nHeight(b) THEN NoBlock
    ELSE CHOOSE a \in AncestorsOf(b) : nHeight(a) = h

Descendants(b) == {d \in Blocks : b \in AncestorsOf(d) /\ d # b}

(***************************************************************************)
(* Block bodies.  A body is fixed by the hash of its header; what the      *)
(* model varies is which kind of body a hash turns out to commit to:       *)
(*   plain      a coinbase only                                            *)
(*   bad        a transaction that spends an output that does not exist    *)
(*   zc         a zerocoin spend (allowed up to HF_ZEROCOIN_DISABLE)       *)
(*   malformed  a second coinbase, refused by CheckBlock                   *)
(***************************************************************************)
BodyKinds == {"plain", "bad", "zc", "malformed"}

NoBody == "nobody"

ExtraTxId ==
    [b \in Blocks |->
        CASE b = "G" -> "xG"
          [] b = "H1" -> "xH1"
          [] b = "H2" -> "xH2"
          [] b = "H3" -> "xH3"
          [] b = "H2p" -> "xH2p"
          [] b = "H3p" -> "xH3p"]

BlockOf(b, kind) ==
    LET cb == Tx(b, "coinbase", <<NullOutpoint>>, <<TxOut(5, FALSE)>>, TRUE)
        extra ==
            CASE kind = "bad" ->
                    <<Tx(ExtraTxId[b], "normal", <<<<"missing", 0>>>>, <<TxOut(1, FALSE)>>, TRUE)>>
              [] kind = "zc" ->
                    <<Tx(ExtraTxId[b], "zerocoin", <<NullOutpoint>>, <<TxOut(1, FALSE)>>, TRUE)>>
              [] kind = "malformed" ->
                    <<Tx(ExtraTxId[b], "coinbase", <<NullOutpoint>>, <<TxOut(1, FALSE)>>, TRUE)>>
              [] OTHER -> <<>>
    IN  [hash |-> b, nHeight |-> nHeight(b), vtx |-> <<cb>> \o extra, checkBlock |-> "ok",
         bip30Exempt |-> FALSE, miningOk |-> TRUE, fWitness |-> FALSE]

(***************************************************************************)
(* Chain state.  The operators below work on a record s that gathers the   *)
(* globals of validation.cpp:                                              *)
(*   idx     mapBlockIndex: per hash, the CBlockIndex fields               *)
(*   tip     chainActive.Tip(); the active chain is AncestorsOf(tip)       *)
(*   coins   pcoinsTip, best its best block                                *)
(*   cand    setBlockIndexCandidates                                       *)
(*   unl     mapBlocksUnlinked, the children in insertion order            *)
(*   seq     nBlockSequenceId                                              *)
(*   body    the kind of body each hash commits to, once a body was seen   *)
(*   undo    the undo files                                                *)
(*   disk    the hashes whose block is stored in the block files           *)
(*   abort   a shutdown was requested by AbortNode                         *)
(*   log     the tips disconnected and connected by the running step       *)
(*   rej     the rejections by ConnectBlock in the running activation      *)
(***************************************************************************)
VARIABLES mapBlockIndex, chainTip, pcoinsTip, coinsBest, setBlockIndexCandidates,
          mapBlocksUnlinked, nBlockSequenceId, blockBody, undoFile, blockFile,
          fRequestShutdown, stepLog, rejected, abcPc, abcMostWork, abcRet, nInvalidate, nReconsider,
          nPrune, nLoad

\* the variables of the connect / disconnect round trip on one block
VARIABLES uPhase, uBlock, uIndex, uView, uBest, uUndo, uView0, uRes

utxoVars == <<uPhase, uBlock, uIndex, uView, uBest, uUndo, uView0, uRes>>

chainVars ==
    <<mapBlockIndex, chainTip, pcoinsTip, coinsBest, setBlockIndexCandidates,
      mapBlocksUnlinked, nBlockSequenceId, blockBody, undoFile, blockFile,
      fRequestShutdown, stepLog, rejected, abcPc, abcMostWork, abcRet, nInvalidate, nReconsider,
      nPrune, nLoad>>

\* one ActivateBestChainStep on a branch of any length, by heights: the
\* locals of the step (pc "off": no step is looked at)
VARIABLE bestChainStep

\* the marks of FlushStateToDisk: the index entries and block-file records
\* to be written, what the block tree database holds, and the last call
VARIABLES setDirtyBlockIndex, setDirtyFileInfo, blockTreeDb, flushCall

\* the memory pool and the chain it is held against: the entries of mapTx,
\* the confirmed coins, the height of the tip, the connected blocks with
\* their undo data, and the last call made on the pool
VARIABLES mpTx, mpCoins, mpHeight, mpBlocks, mpCall

\* -mempoolreplacement, fixed when the node starts
VARIABLE fEnableReplacement

poolVars == <<mpTx, mpCoins, mpHeight, mpBlocks, mpCall, fEnableReplacement>>

\* the script-check queue during one ConnectBlock: the controller's position
\* and locals, the queue with nTodo and fAllOk, and each worker's batch
VARIABLES cqCtl, cqQueue, nTodo, fAllOk, cqWorker

checkVars == <<cqCtl, cqQueue, nTodo, fAllOk, cqWorker>>

\* the height a block reward is asked for, and the answers
VARIABLES rwHeight, rwCall

rewardVars == <<rwHeight, rwCall>>

\* the block files of a pruning node: the record of each file, the file
\* being written, per height the entry of the active chain's block, the
\* height of the tip and the last FindFilesToPrune
VARIABLES vinfoBlockFile, nLastBlockFile, pfIndex, pfTip, pfCall

fileVars == <<vinfoBlockFile, nLastBlockFile, pfIndex, pfTip, pfCall>>

auxVars == <<checkVars, rewardVars, fileVars>>

sideVars == <<bestChainStep, setDirtyBlockIndex, setDirtyFileInfo, blockTreeDb, flushCall,
              poolVars, auxVars>>

NoFlushCall == [ret |-> "none", vBlocks |-> {}, vFiles |-> {}]

StepOff == bestChainStep = [pc |-> "off"]

FlushOff ==
    /\ setDirtyBlockIndex = {}
    /\ setDirtyFileInfo = {}
    /\ blockTreeDb = [blocks |-> {}, files |-> {}]
    /\ flushCall = NoFlushCall

NoPoolCall == [op |-> "none"]

PoolOff ==
    /\ mpTx = {}
    /\ mpCoins = EmptyView
    /\ mpHeight = 0
    /\ mpBlocks = <<>>
    /\ mpCall = NoPoolCall
    /\ fEnableReplacement = TRUE

ChecksOff ==
    /\ cqCtl = [pc |-> "off"]
    /\ cqQueue = <<>>
    /\ nTodo = 0
    /\ fAllOk = TRUE
    /\ cqWorker = <<>>

RewardOff ==
    /\ rwHeight = 0
    /\ rwCall = [op |-> "none"]

FilesOff ==
    /\ vinfoBlockFile = <<>>
    /\ nLastBlockFile = 0
    /\ pfIndex = <<>>
    /\ pfTip = 0
    /\ pfCall = [op |-> "none"]

AuxOff == ChecksOff /\ RewardOff /\ FilesOff

NewIndexEntry ==
    [known |-> FALSE, valid |-> BLOCK_VALID_UNKNOWN, haveData |-> FALSE, haveUndo |-> FALSE,
     failedValid |-> FALSE, failedChild |-> FALSE, nTx |-> 0, nChainTx |-> 0, nSequenceId |-> 0,
     nHeight |-> 0, nChainWork |-> 0]

\* the CBlockIndex of b as ConnectBlock and DisconnectBlock see it
PIndex(s, b) ==
    [hash |-> b, prev |-> pprev[b], nHeight |-> nHeight(b), isGenesis |-> b = hashGenesisBlock,
     valid |-> s.idx[b].valid, haveUndo |-> s.idx[b].haveUndo,
     failedValid |-> s.idx[b].failedValid, failedChild |-> s.idx[b].failedChild]

Contains(s, b) == b # NoBlock /\ b \in AncestorsOf(s.tip)

RECURSIVE FindFork(_, _)
FindFork(s, b) ==
    IF b = NoBlock \/ s.tip = NoBlock THEN NoBlock
    ELSE IF Contains(s, b) THEN b
    ELSE FindFork(s, pprev[b])

\* a comparator that prefers, at equal work, the block received last
CBlockIndexWorkComparatorLatest(s, pa, pb) ==
    IF nChainWork(pa) > nChainWork(pb) THEN FALSE
    ELSE IF nChainWork(pa) < nChainWork(pb) THEN TRUE
    ELSE IF s.idx[pa].nSequenceId > s.idx[pb].nSequenceId THEN FALSE
    ELSE IF s.idx[pa].nSequenceId < s.idx[pb].nSequenceId THEN TRUE
    ELSE IF Addr[pa] < Addr[pb] THEN FALSE
    ELSE IF Addr[pa] > Addr[pb] THEN TRUE
    ELSE FALSE

\* CBlockIndexWorkComparator: pa sorts before pb
CBlockIndexWorkComparator(s, pa, pb) ==
    IF nChainWork(pa) > nChainWork(pb) THEN FALSE
    ELSE IF nChainWork(pa) < nChainWork(pb) THEN TRUE
    ELSE IF s.idx[pa].nSequenceId < s.idx[pb].nSequenceId THEN FALSE
    ELSE IF s.idx[pa].nSequenceId > s.idx[pb].nSequenceId THEN TRUE
    ELSE IF Addr[pa] < Addr[pb] THEN FALSE
    ELSE IF Addr[pa] > Addr[pb] THEN TRUE
    ELSE FALSE

\* setBlockIndexCandidates.rbegin()
LastCandidate(s) ==
    CHOOSE c \in s.cand : \A d \in s.cand \ {c} : CBlockIndexWorkComparator(s, d, c)

\* an AddToBlockIndex that leaves the parent's work out of nChainWork
AddToBlockIndexOwnWork(s, b) ==
    IF s.idx[b].known THEN s
    ELSE [s EXCEPT !.idx[b] =
              RaiseValidity([NewIndexEntry EXCEPT
                                 !.known = TRUE,
                                 !.nHeight = IF pprev[b] = NoBlock THEN 0
                                             ELSE s.idx[pprev[b]].nHeight + 1,
                                 !.nChainWork = GetBlockProof[b]],
                            BLOCK_VALID_TREE)]

AddToBlockIndex(s, b) ==
    IF s.idx[b].known THEN s
    ELSE [s EXCEPT !.idx[b] =
              RaiseValidity([NewIndexEntry EXCEPT
                                 !.known = TRUE,
                                 !.nHeight = IF pprev[b] = NoBlock THEN 0
                                             ELSE s.idx[pprev[b]].nHeight + 1,
                                 !.nChainWork = (IF pprev[b] = NoBlock THEN 0
                                                 ELSE s.idx[pprev[b]].nChainWork)
                                                + GetBlockProof[b]],
                            BLOCK_VALID_TREE)]

(***************************************************************************)
(* ReceivedBlockTransactions                                               *)
(***************************************************************************)
\* a link that hands out the counter without advancing it
LinkEntryCounterKept(s, pindex) ==
    [s EXCEPT !.idx[pindex].nChainTx =
                  (IF pprev[pindex] = NoBlock THEN 0 ELSE s.idx[pprev[pindex]].nChainTx)
                  + s.idx[pindex].nTx,
              !.idx[pindex].nSequenceId = s.seq]

\* nChainTx and nSequenceId of a block whose ancestors all have transactions
LinkEntry(s, pindex) ==
    [s EXCEPT !.idx[pindex].nChainTx =
                  (IF pprev[pindex] = NoBlock THEN 0 ELSE s.idx[pprev[pindex]].nChainTx)
                  + s.idx[pindex].nTx,
              !.idx[pindex].nSequenceId = s.seq,
              !.seq = s.seq + 1]

AddCandidate(s, pindex) ==
    IF s.tip = NoBlock \/ ~CBlockIndexWorkComparator(s, pindex, s.tip)
    THEN [s EXCEPT !.cand = s.cand \cup {pindex}]
    ELSE s

\* the queue loop: link the entry and every unlinked block that waited for it
RECURSIVE LinkQueue(_, _)
LinkQueue(s, queue) ==
    IF queue = <<>> THEN s
    ELSE LinkQueue([AddCandidate(LinkEntry(s, Head(queue)), Head(queue)) EXCEPT
                        !.unl = SelectSeq(s.unl, LAMBDA c : pprev[c] # Head(queue))],
                   Tail(queue) \o SelectSeq(s.unl, LAMBDA c : pprev[c] = Head(queue)))

\* a ReceivedBlockTransactions that links the block whatever its parent
ReceivedBlockTransactionsLinked(s, b, kind) ==
    LinkQueue([s EXCEPT !.idx[b] =
                   RaiseValidity([s.idx[b] EXCEPT !.nTx = Len(BlockOf(b, kind).vtx),
                                                  !.nChainTx = 0,
                                                  !.haveData = TRUE],
                                 BLOCK_VALID_TRANSACTIONS)],
              <<b>>)

ReceivedBlockTransactions(s, b, kind) ==
    Let([s EXCEPT !.idx[b] =
             RaiseValidity([s.idx[b] EXCEPT !.nTx = Len(BlockOf(b, kind).vtx),
                                            !.nChainTx = 0,
                                            !.haveData = TRUE],
                           BLOCK_VALID_TRANSACTIONS)],
        LAMBDA s1 :
            IF pprev[b] = NoBlock \/ s1.idx[pprev[b]].nChainTx > 0
            THEN LinkQueue(s1, <<b>>)
            ELSE IF IsValid(s1.idx[pprev[b]], BLOCK_VALID_TREE)
            THEN [s1 EXCEPT !.unl = Append(s1.unl, b)]
            ELSE s1)

(***************************************************************************)
(* AcceptBlockHeader and AcceptBlock; the result is [s, ok], and for the    *)
(* header pindex, the entry written through ppindex (NoBlock: not written) *)
(***************************************************************************)
\* an AcceptBlockHeader without the check for a duplicate: the header is
\* taken for new and a new entry is constructed for it
AcceptBlockHeaderTakenForNew(s, b) ==
    IF b # hashGenesisBlock /\ ~s.idx[pprev[b]].known
    THEN [s |-> s, ok |-> FALSE, pindex |-> NoBlock]
    ELSE IF b # hashGenesisBlock /\ Failed(s.idx[pprev[b]])
    THEN [s |-> s, ok |-> FALSE, pindex |-> NoBlock]
    ELSE [s |-> AddToBlockIndex([s EXCEPT !.idx[b] = NewIndexEntry], b), ok |-> TRUE,
          pindex |-> b]

AcceptBlockHeader(s, b) ==
    IF b # hashGenesisBlock /\ s.idx[b].known
    THEN [s |-> s, ok |-> ~Failed(s.idx[b]), pindex |-> b]
    ELSE IF b # hashGenesisBlock /\ ~s.idx[pprev[b]].known
    THEN [s |-> s, ok |-> FALSE, pindex |-> NoBlock]
    ELSE IF b # hashGenesisBlock /\ Failed(s.idx[pprev[b]])
    THEN [s |-> s, ok |-> FALSE, pindex |-> NoBlock]
    ELSE [s |-> AddToBlockIndex(s, b), ok |-> TRUE, pindex |-> b]

\* MIN_BLOCKS_TO_KEEP of validation.h, the distance that FindFilesToPrune
\* keeps below the tip and that AcceptBlock lets an unrequested block be
\* ahead of it, scaled to the height of the tree of Blocks
nKeepBelowTip == 2

\* an AcceptBlock that takes an unrequested block however far ahead it is
AcceptUnrequestedAnyHeight(s, b) ==
    /\ s.idx[b].nTx = 0
    /\ (s.tip # NoBlock => nChainWork(b) > nChainWork(s.tip))

TipHeight(s) == IF s.tip = NoBlock THEN -1 ELSE nHeight(s.tip)

\* the block is stored without having been asked for only when it is new,
\* has more work than the tip and is not too far ahead
AcceptUnrequested(s, b) ==
    /\ s.idx[b].nTx = 0
    /\ (s.tip # NoBlock => nChainWork(b) > nChainWork(s.tip))
    /\ nHeight(b) <= TipHeight(s) + nKeepBelowTip

\* ContextualCheckBlock of a block without a witness commitment: witness
\* data in a transaction is refused with corruption possible (the bodies of
\* the model are final and within the weight limit)
ContextualCheckBlock(block) == IF block.fWitness THEN "corrupt" ELSE "ok"

\* an AcceptBlock that marks the entry whatever the rejection is
AcceptBlockBodyMarksAll(s, s0, b, kind, fRequested, io, chk) ==
    IF s.idx[b].haveData THEN [s |-> s, ok |-> TRUE, fNewBlock |-> FALSE]
    ELSE IF ~fRequested /\ ~AcceptUnrequested(s, b)
    THEN [s |-> s, ok |-> TRUE, fNewBlock |-> FALSE]
    ELSE IF chk # "ok"
    THEN [s |-> [s0 EXCEPT !.idx[b].failedValid = TRUE], ok |-> FALSE, fNewBlock |-> TRUE]
    ELSE [s |-> ReceivedBlockTransactions(
                    IF io = "write" THEN [s0 EXCEPT !.abort = TRUE]
                    ELSE [s0 EXCEPT !.disk = s0.disk \cup {b}], b, kind),
          ok |-> TRUE, fNewBlock |-> TRUE]

\* an AcceptBlock without the early return for a block it already has
AcceptBlockBodyAgain(s, s0, b, kind, fRequested, io, chk) ==
    IF ~fRequested /\ ~AcceptUnrequested(s, b)
    THEN [s |-> s, ok |-> TRUE, fNewBlock |-> FALSE]
    ELSE IF chk # "ok"
    THEN [s |-> IF chk = "invalid" THEN [s0 EXCEPT !.idx[b].failedValid = TRUE] ELSE s,
          ok |-> FALSE, fNewBlock |-> TRUE]
    ELSE [s |-> ReceivedBlockTransactions(
                    IF io = "write" THEN [s0 EXCEPT !.abort = TRUE]
                    ELSE [s0 EXCEPT !.disk = s0.disk \cup {b}], b, kind),
          ok |-> TRUE, fNewBlock |-> TRUE]

\* the part of AcceptBlock that follows the header; s0 is the state in which
\* the body of b has been seen
AcceptBlockBody(s, s0, b, kind, fRequested, io, chk) ==
    IF s.idx[b].haveData THEN [s |-> s, ok |-> TRUE, fNewBlock |-> FALSE]
    ELSE IF ~fRequested /\ ~AcceptUnrequested(s, b)
    THEN [s |-> s, ok |-> TRUE, fNewBlock |-> FALSE]
    ELSE IF chk # "ok"
    THEN [s |-> IF chk = "invalid" THEN [s0 EXCEPT !.idx[b].failedValid = TRUE] ELSE s,
          ok |-> FALSE, fNewBlock |-> TRUE]
    ELSE [s |-> ReceivedBlockTransactions(
                    IF io = "write" THEN [s0 EXCEPT !.abort = TRUE]
                    ELSE [s0 EXCEPT !.disk = s0.disk \cup {b}], b, kind),
          ok |-> TRUE, fNewBlock |-> TRUE]

\* the block as it is delivered: io "mutated": its merkle tree was tampered
\* with (CheckBlock fails, corruption possible); io "witness": witness data
\* was attached to a transaction
Delivered(b, kind, io) ==
    [BlockOf(b, kind) EXCEPT !.checkBlock = IF io = "mutated" THEN "corrupt" ELSE "ok",
                             !.fWitness = (io = "witness")]

\* !CheckBlock(block, state) || !ContextualCheckBlock(block, state, pprev)
CheckBlocks(block) ==
    IF CheckBlock(block) # "ok" THEN CheckBlock(block) ELSE ContextualCheckBlock(block)

\* kind: the body the hash commits to; io "write": WriteBlockToDisk fails
AcceptBlock(s, b, kind, fRequested, io) ==
    Let(AcceptBlockHeader(s, b),
        LAMBDA h :
            IF ~h.ok THEN [s |-> h.s, ok |-> FALSE, fNewBlock |-> FALSE]
            ELSE AcceptBlockBody(h.s, [h.s EXCEPT !.body[b] = kind], b, kind, fRequested, io,
                                 CheckBlocks(Delivered(b, kind, io))))

(***************************************************************************)
(* FindMostWorkChain and PruneBlockIndexCandidates                         *)
(***************************************************************************)
\* the first entry from pindexTest up to the active chain that is failed
\* or lacks its data, NoBlock when the whole path is usable
RECURSIVE FirstUnusable(_, _)
FirstUnusable(s, pindexTest) ==
    IF pindexTest = NoBlock \/ Contains(s, pindexTest) THEN NoBlock
    ELSE IF Failed(s.idx[pindexTest]) \/ ~s.idx[pindexTest].haveData THEN pindexTest
    ELSE FirstUnusable(s, pprev[pindexTest])

\* the inner loop: from pindexFailed up to, and without, pindexTest
RECURSIVE RemoveChain(_, _, _, _)
RemoveChain(s, pindexFailed, pindexTest, fFailedChain) ==
    IF pindexFailed = pindexTest THEN s
    ELSE RemoveChain([s EXCEPT !.idx[pindexFailed].failedChild = @ \/ fFailedChain,
                               !.unl = IF fFailedChain THEN @ ELSE Append(@, pindexFailed),
                               !.cand = @ \ {pindexFailed}],
                     pprev[pindexFailed], pindexTest, fFailedChain)

\* result [s, pindex]; pindex is NoBlock when no candidate is left
RECURSIVE FindMostWorkChain(_)
FindMostWorkChain(s) ==
    IF s.cand = {} THEN [s |-> s, pindex |-> NoBlock]
    ELSE Let(LastCandidate(s),
             LAMBDA pindexNew :
                 Let(FirstUnusable(s, pindexNew),
                     LAMBDA pindexTest :
                         IF pindexTest = NoBlock THEN [s |-> s, pindex |-> pindexNew]
                         ELSE FindMostWorkChain(
                                  [RemoveChain(s, pindexNew, pindexTest,
                                               Failed(s.idx[pindexTest]))
                                       EXCEPT !.cand = @ \ {pindexTest}])))

PruneBlockIndexCandidates(s) ==
    [s EXCEPT !.cand = {c \in s.cand : ~CBlockIndexWorkComparator(s, c, s.tip)}]

(***************************************************************************)
(* PruneOneBlockFile and LoadBlockIndexDB                                  *)
(***************************************************************************)
\* a PruneOneBlockFile that also forgets what was validated of the block
PruneOneBlockFileForgets(s, b) ==
    [s EXCEPT !.idx[b].haveData = FALSE,
              !.idx[b].haveUndo = FALSE,
              !.idx[b].valid = BLOCK_VALID_TREE,
              !.unl = SelectSeq(s.unl, LAMBDA c : c # b),
              !.disk = s.disk \ {b},
              !.undo[b] = <<>>]

\* a block file that holds the one block b is pruned and unlinked
PruneOneBlockFile(s, b) ==
    [s EXCEPT !.idx[b].haveData = FALSE,
              !.idx[b].haveUndo = FALSE,
              !.unl = SelectSeq(s.unl, LAMBDA c : c # b),
              !.disk = s.disk \ {b},
              !.undo[b] = <<>>]



\* vSortedByHeight: parents before children, siblings in allocation order
SortedByHeight(s) ==
    SelectSeq(<<"G", "H1", "H2", "H2p", "H3", "H3p">>, LAMBDA b : s.idx[b].known)

\* nChainTx as the loop of LoadBlockIndexDB relinks it
LoadChainTx(s, b) ==
    IF s.idx[b].nTx = 0 THEN 0
    ELSE IF pprev[b] = NoBlock THEN s.idx[b].nTx
    ELSE IF s.idx[pprev[b]].nChainTx > 0 THEN s.idx[pprev[b]].nChainTx + s.idx[b].nTx
    ELSE 0

\* one round of the loop over vSortedByHeight
LoadEntry(s, b) ==
    Let([s EXCEPT !.idx[b].nChainWork =
                      (IF pprev[b] = NoBlock THEN 0 ELSE s.idx[pprev[b]].nChainWork)
                      + GetBlockProof[b],
                  !.idx[b].nChainTx = LoadChainTx(s, b),
                  !.unl = IF s.idx[b].nTx > 0 /\ pprev[b] # NoBlock
                             /\ s.idx[pprev[b]].nChainTx = 0
                          THEN Append(s.unl, b) ELSE s.unl],
        LAMBDA s1 :
            IF IsValid(s1.idx[b], BLOCK_VALID_TRANSACTIONS)
               /\ (s1.idx[b].nChainTx > 0 \/ pprev[b] = NoBlock)
            THEN [s1 EXCEPT !.cand = s1.cand \cup {b}]
            ELSE s1)

RECURSIVE LoadEntries(_, _)
LoadEntries(s, order) ==
    IF order = <<>> THEN s ELSE LoadEntries(LoadEntry(s, Head(order)), Tail(order))

\* what LoadBlockIndexGuts reads back: the fields of CDiskBlockIndex; the
\* fields kept in memory only start from their defaults
DiskIndex(s) ==
    [b \in Blocks |->
        [s.idx[b] EXCEPT !.nChainTx = 0, !.nSequenceId = 0, !.nChainWork = 0]]

\* the index of a node that starts again after a shutdown that flushed the
\* block index and the coins
LoadBlockIndexDB(s) ==
    Let(LoadEntries([s EXCEPT !.idx = DiskIndex(s), !.cand = {}, !.unl = <<>>, !.seq = 1],
                    SortedByHeight(s)),
        LAMBDA s1 : PruneBlockIndexCandidates([s1 EXCEPT !.tip = s.best]))

(***************************************************************************)
(* InvalidBlockFound, ConnectTip and DisconnectTip.                        *)
(* io names the failure the environment injects into the call, if any:     *)
(*   "read"       ReadBlockFromDisk fails                                  *)
(*   "undoWrite"  UndoWriteToDisk fails                                    *)
(*   "undoRead"   UndoReadFromDisk fails                                   *)
(*   "flush"      FlushStateToDisk(IF_NEEDED) fails                        *)
(*   "periodic"   FlushStateToDisk(PERIODIC) fails                         *)
(* The result is [s, res]; res is "ok", "invalid", "corrupt", "failed"     *)
(* (no state error set) or "error" (system error)                          *)
(***************************************************************************)
TipIoKinds == {"none", "read", "undoWrite", "undoRead", "flush", "periodic"}

\* an InvalidBlockFound that drops the candidate without marking the entry
InvalidBlockFoundUnmarked(s, b, state) ==
    IF state = "invalid" THEN [s EXCEPT !.cand = s.cand \ {b}] ELSE s

InvalidBlockFound(s, b, state) ==
    IF state = "invalid"
    THEN [s EXCEPT !.idx[b].failedValid = TRUE, !.cand = s.cand \ {b}]
    ELSE s

UpdateTip(s, b) == [s EXCEPT !.tip = b]

\* ConnectBlock refused the block: r is its result
ConnectTipRefused(s, b, r) ==
    [InvalidBlockFound(s, b, r.state) EXCEPT
         !.abort = s.abort \/ r.state = "error",
         !.rej = IF r.state = "invalid"
                 THEN Append(s.rej, [block |-> b, tip |-> s.tip,
                                     coins |-> s.coins, best |-> s.best])
                 ELSE s.rej]

\* view.Flush() after a successful ConnectBlock
ConnectTipFlushed(s, b, r) ==
    [s EXCEPT !.idx[b].haveUndo = r.pindex.haveUndo,
              !.idx[b].valid = r.pindex.valid,
              !.undo[b] = IF s.idx[b].haveUndo THEN s.undo[b] ELSE r.blockundo,
              !.coins = r.view,
              !.best = r.best]

ConnectTipFinish(s, b, io, r) ==
    IF r.state # "ok"
    THEN [s |-> ConnectTipRefused(s, b, r),
          res |-> IF r.state = "rejected" THEN "failed" ELSE r.state]
    ELSE IF io = "flush"
    THEN [s |-> [ConnectTipFlushed(s, b, r) EXCEPT !.abort = TRUE], res |-> "error"]
    ELSE [s |-> [UpdateTip(ConnectTipFlushed(s, b, r), b) EXCEPT
                     !.log = Append(s.log, <<"connect", b>>)],
          res |-> "ok"]

ConnectTip(s, b, io) ==
    IF io = "read" \/ b \notin s.disk THEN [s |-> [s EXCEPT !.abort = TRUE], res |-> "error"]
    ELSE ConnectTipFinish(s, b, io,
             ConnectBlock(BlockOf(b, s.body[b]), PIndex(s, b), s.coins, s.best, FALSE,
                          io # "undoWrite"))

\* a DisconnectTip that goes on after every outcome but DISCONNECT_FAILED
DisconnectTipAcceptsUnclean(res) == res # "FAILED"

\* the outcomes of DisconnectBlock after which DisconnectTip goes on
DisconnectTipAccepts(res) == res = "OK"

DisconnectTipFinish(s, b, io, r) ==
    IF ~DisconnectTipAccepts(r.res) THEN [s |-> s, res |-> "failed"]
    ELSE IF io = "flush"
    THEN [s |-> [s EXCEPT !.coins = r.view, !.best = r.best, !.abort = TRUE], res |-> "error"]
    ELSE [s |-> [UpdateTip(s, pprev[b]) EXCEPT
                     !.coins = r.view, !.best = r.best,
                     !.log = Append(s.log, <<"disconnect", b>>)],
          res |-> "ok"]

DisconnectTip(s, io) ==
    IF io = "read" \/ s.tip \notin s.disk THEN [s |-> [s EXCEPT !.abort = TRUE], res |-> "error"]
    ELSE DisconnectTipFinish(s, s.tip, io,
             DisconnectBlock(BlockOf(s.tip, s.body[s.tip]), PIndex(s, s.tip), s.coins, s.best,
                             s.undo[s.tip], io # "undoRead"))

(***************************************************************************)
(* ActivateBestChainStep.  io = [kind, at]: the failure kind strikes the   *)
(* at-th tip operation of the step.  Result [s, ok, fInvalidFound].        *)
(* The log of the step starts with its target.                             *)
(***************************************************************************)
IoFor(io, n) == IF io.at = n THEN io.kind ELSE "none"

\* the disconnect loop; n counts the tip operations done so far
RECURSIVE StepDisconnect(_, _, _, _)
StepDisconnect(s, pindexFork, io, n) ==
    IF s.tip = NoBlock \/ s.tip = pindexFork THEN [s |-> s, ok |-> TRUE, n |-> n]
    ELSE Let(DisconnectTip(s, IoFor(io, n + 1)),
             LAMBDA d :
                 IF d.res # "ok" THEN [s |-> d.s, ok |-> FALSE, n |-> n + 1]
                 ELSE StepDisconnect(d.s, pindexFork, io, n + 1))

\* blocks connected per batch
nConnectBatch == 32

Min(a, b) == IF a < b THEN a ELSE b

\* BOOST_REVERSE_FOREACH over one batch: heights h + 1 .. nTargetHeight
\* out is "next" (batch done), "break" (fContinue = false) or "false"
RECURSIVE StepConnectBatch(_, _, _, _, _, _, _)
StepConnectBatch(s, pindexMostWork, h, nTargetHeight, pindexOldTip, io, n) ==
    IF h >= nTargetHeight THEN [s |-> s, out |-> "next", fInvalidFound |-> FALSE, n |-> n]
    ELSE Let(ConnectTip(s, GetAncestor(pindexMostWork, h + 1), IoFor(io, n + 1)),
             LAMBDA c :
                 IF c.res \in {"invalid", "corrupt"}
                 THEN [s |-> c.s, out |-> "break", fInvalidFound |-> TRUE, n |-> n + 1]
                 ELSE IF c.res # "ok"
                 THEN [s |-> c.s, out |-> "false", fInvalidFound |-> FALSE, n |-> n + 1]
                 ELSE IF pindexOldTip = NoBlock
                         \/ nChainWork(c.s.tip) > nChainWork(pindexOldTip)
                 THEN [s |-> PruneBlockIndexCandidates(c.s), out |-> "break",
                       fInvalidFound |-> FALSE, n |-> n + 1]
                 ELSE StepConnectBatch(PruneBlockIndexCandidates(c.s), pindexMostWork, h + 1,
                                       nTargetHeight, pindexOldTip, io, n + 1))

RECURSIVE StepConnect(_, _, _, _, _, _)
StepConnect(s, pindexMostWork, h, pindexOldTip, io, n) ==
    IF h = nHeight(pindexMostWork) THEN [s |-> s, ok |-> TRUE, fInvalidFound |-> FALSE]
    ELSE Let(StepConnectBatch(s, pindexMostWork, h,
                              Min(h + nConnectBatch, nHeight(pindexMostWork)),
                              pindexOldTip, io, n),
             LAMBDA b :
                 IF b.out = "false" THEN [s |-> b.s, ok |-> FALSE, fInvalidFound |-> FALSE]
                 ELSE IF b.out = "break"
                 THEN [s |-> b.s, ok |-> TRUE, fInvalidFound |-> b.fInvalidFound]
                 ELSE StepConnect(b.s, pindexMostWork,
                                  Min(h + nConnectBatch, nHeight(pindexMostWork)),
                                  pindexOldTip, io, b.n))

\* a step that, when it has to rewind, rewinds one block below the fork
ActivateBestChainStepBelow(s, pindexMostWork, io) ==
    Let(StepDisconnect([s EXCEPT !.log = Append(s.log, <<"step", pindexMostWork>>)],
                       IF FindFork(s, pindexMostWork) = s.tip THEN s.tip
                       ELSE pprev[FindFork(s, pindexMostWork)], io, 0),
        LAMBDA d :
            IF ~d.ok THEN [s |-> d.s, ok |-> FALSE, fInvalidFound |-> FALSE]
            ELSE StepConnect(d.s, pindexMostWork, TipHeight(d.s), s.tip, io, d.n))

ActivateBestChainStep(s, pindexMostWork, io) ==
    Let(StepDisconnect([s EXCEPT !.log = Append(s.log, <<"step", pindexMostWork>>)],
                       FindFork(s, pindexMostWork), io, 0),
        LAMBDA d :
            IF ~d.ok THEN [s |-> d.s, ok |-> FALSE, fInvalidFound |-> FALSE]
            ELSE StepConnect(d.s, pindexMostWork, TipHeight(d.s), s.tip, io, d.n))

(***************************************************************************)
(* InvalidateBlock and ReconsiderBlock; the result is [s, ok]              *)
(***************************************************************************)
RECURSIVE InvalidateWalk(_, _, _, _)
InvalidateWalk(s, pindex, io, n) ==
    IF ~Contains(s, pindex) THEN [s |-> s, ok |-> TRUE]
    ELSE Let(DisconnectTip([s EXCEPT !.idx[s.tip].failedChild = TRUE,
                                     !.cand = s.cand \ {s.tip}],
                           IoFor(io, n + 1)),
             LAMBDA d :
                 IF d.res # "ok" THEN [s |-> d.s, ok |-> FALSE]
                 ELSE InvalidateWalk(d.s, pindex, io, n + 1))

\* the loop over mapBlockIndex that follows the walk
InvalidateReadd(s) ==
    [s EXCEPT !.cand = s.cand \cup
                  {e \in Blocks : /\ s.idx[e].known
                                  /\ IsValid(s.idx[e], BLOCK_VALID_TRANSACTIONS)
                                  /\ s.idx[e].nChainTx > 0
                                  /\ ~CBlockIndexWorkComparator(s, e, s.tip)}]

InvalidateBlock(s, pindex, io) ==
    Let(InvalidateWalk([s EXCEPT !.idx[pindex].failedValid = TRUE,
                                 !.cand = s.cand \ {pindex}],
                       pindex, io, 0),
        LAMBDA w : IF ~w.ok THEN w ELSE [s |-> InvalidateReadd(w.s), ok |-> TRUE])

ClearFailed(e) == [e EXCEPT !.failedValid = FALSE, !.failedChild = FALSE]

\* the entries the first loop of ReconsiderBlock resets: the descendants of
\* pindex, and pindex itself, that are not valid
ReconsiderSet(s, pindex) ==
    {e \in Blocks : /\ s.idx[e].known
                    /\ ~IsValid(s.idx[e], BLOCK_VALID_TRANSACTIONS)
                    /\ GetAncestor(e, nHeight(pindex)) = pindex}

\* the entries reset that go back into setBlockIndexCandidates
ReconsiderReadd(s, below) ==
    [s EXCEPT !.cand = s.cand \cup
                  {e \in below : /\ IsValid(s.idx[e], BLOCK_VALID_TRANSACTIONS)
                                 /\ s.idx[e].nChainTx > 0
                                 /\ CBlockIndexWorkComparator(s, s.tip, e)}]

\* the second loop: the failure flags of pindex and its ancestors
ReconsiderAncestors(s, pindex) ==
    [s EXCEPT !.idx = [e \in Blocks |->
                          IF e \in AncestorsOf(pindex) THEN ClearFailed(s.idx[e])
                          ELSE s.idx[e]]]

ReconsiderBlock(s, pindex) ==
    ReconsiderAncestors(
        ReconsiderReadd(
            [s EXCEPT !.idx = [e \in Blocks |->
                                  IF e \in ReconsiderSet(s, pindex) THEN ClearFailed(s.idx[e])
                                  ELSE s.idx[e]]],
            ReconsiderSet(s, pindex)),
        pindex)

(***************************************************************************)
(* One iteration of the loop of ActivateBestChain: the work done between   *)
(* taking cs_main and releasing it.  Result [s, pc, most, ret]: pc is      *)
(* "loop" when the loop goes round again, "idle" when the call returns.    *)
(***************************************************************************)
\* the FlushStateToDisk(PERIODIC) after the loop
ActivateBestChainReturn(s, io) ==
    IF io.kind # "periodic" THEN [s |-> s, pc |-> "idle", most |-> NoBlock, ret |-> "true"]
    ELSE [s |-> [s EXCEPT !.abort = TRUE], pc |-> "idle", most |-> NoBlock, ret |-> "false"]

\* after the step: pindexMostWork is dropped when an invalid block was found
ActivateBestChainAfterStep(step, pindexMostWork, io) ==
    IF ~step.ok THEN [s |-> step.s, pc |-> "idle", most |-> NoBlock, ret |-> "false"]
    ELSE IF step.fInvalidFound
    THEN [s |-> step.s, pc |-> "loop", most |-> NoBlock, ret |-> "none"]
    ELSE IF step.s.tip # pindexMostWork
    THEN [s |-> step.s, pc |-> "loop", most |-> pindexMostWork, ret |-> "none"]
    ELSE ActivateBestChainReturn(step.s, io)

\* an iteration that does not look at ShutdownRequested
ActivateBestChainIterationNoBreak(s, most0, io) ==
    Let(IF most0 = NoBlock THEN FindMostWorkChain(s) ELSE [s |-> s, pindex |-> most0],
        LAMBDA fm :
            IF fm.pindex = NoBlock \/ fm.pindex = fm.s.tip
            THEN [s |-> fm.s, pc |-> "idle", most |-> NoBlock, ret |-> "true"]
            ELSE ActivateBestChainAfterStep(
                     ActivateBestChainStep(fm.s, fm.pindex, io), fm.pindex, io))

ActivateBestChainIteration(s, most0, io) ==
    IF s.abort THEN ActivateBestChainReturn(s, io)
    ELSE Let(IF most0 = NoBlock THEN FindMostWorkChain(s) ELSE [s |-> s, pindex |-> most0],
             LAMBDA fm :
                 IF fm.pindex = NoBlock \/ fm.pindex = fm.s.tip
                 THEN [s |-> fm.s, pc |-> "idle", most |-> NoBlock, ret |-> "true"]
                 ELSE ActivateBestChainAfterStep(
                          ActivateBestChainStep(fm.s, fm.pindex, io), fm.pindex, io))

(***************************************************************************)
(* The state machine                                                       *)
(***************************************************************************)
Cur ==
    [idx |-> mapBlockIndex, tip |-> chainTip, coins |-> pcoinsTip, best |-> coinsBest,
     cand |-> setBlockIndexCandidates, unl |-> mapBlocksUnlinked, seq |-> nBlockSequenceId,
     body |-> blockBody, undo |-> undoFile, disk |-> blockFile,
     abort |-> fRequestShutdown,
     log |-> stepLog, rej |-> rejected]

Install(s) ==
    /\ mapBlockIndex' = s.idx
    /\ chainTip' = s.tip
    /\ pcoinsTip' = s.coins
    /\ coinsBest' = s.best
    /\ setBlockIndexCandidates' = s.cand
    /\ mapBlocksUnlinked' = s.unl
    /\ nBlockSequenceId' = s.seq
    /\ blockBody' = s.body
    /\ undoFile' = s.undo
    /\ blockFile' = s.disk
    /\ fRequestShutdown' = s.abort
    /\ stepLog' = s.log
    /\ rejected' = s.rej

\* the bookkeeping of the previous activation is dropped when a new call starts
Fresh == [Cur EXCEPT !.log = <<>>, !.rej = <<>>]

\* the hashes that may turn out to commit to a body that is not plain
SpecialBlocks == {"H2"}

\* the kinds of body that a delivery for hash b can carry
KindsFor(b) ==
    IF blockBody[b] # NoBody THEN {blockBody[b]}
    ELSE IF b \in SpecialBlocks THEN BodyKinds
    ELSE {"plain"}

\* a fresh node: the genesis block accepted and activated
Init ==
    /\ mapBlockIndex =
           [b \in Blocks |->
               IF b = hashGenesisBlock
               THEN [NewIndexEntry EXCEPT !.known = TRUE, !.valid = BLOCK_VALID_TRANSACTIONS,
                                          !.haveData = TRUE, !.nTx = 1, !.nChainTx = 1,
                                          !.nSequenceId = 1,
                                          !.nChainWork = GetBlockProof[hashGenesisBlock]]
               ELSE NewIndexEntry]
    /\ chainTip = hashGenesisBlock
    /\ pcoinsTip = EmptyView
    /\ coinsBest = hashGenesisBlock
    /\ setBlockIndexCandidates = {hashGenesisBlock}
    /\ mapBlocksUnlinked = <<>>
    /\ nBlockSequenceId = 2
    /\ blockBody = [b \in Blocks |-> IF b = hashGenesisBlock THEN "plain" ELSE NoBody]
    /\ undoFile = [b \in Blocks |-> <<>>]
    /\ blockFile = {hashGenesisBlock}
    /\ fRequestShutdown = FALSE
    /\ stepLog = <<>>
    /\ rejected = <<>>
    /\ abcPc = "idle"
    /\ abcMostWork = NoBlock
    /\ abcRet = "none"
    /\ nInvalidate = 0
    /\ nReconsider = 0
    /\ nPrune = 0
    /\ nLoad = 0
    /\ StepOff
    /\ FlushOff
    /\ PoolOff
    /\ AuxOff
    /\ uPhase = "off"
    /\ uBlock = 0
    /\ uIndex = 0
    /\ uView = EmptyView
    /\ uBest = "A"
    /\ uUndo = <<>>
    /\ uView0 = EmptyView
    /\ uRes = "none"

Idle == abcPc = "idle" /\ ~fRequestShutdown

\* calls of the invalidateblock and reconsiderblock commands explored
MaxInvalidate == 1

MaxReconsider == 1

DoAcceptBlockHeader(b) ==
    /\ Idle
    /\ Install(AcceptBlockHeader(Fresh, b).s)
    /\ abcRet' = "none"
    /\ UNCHANGED <<abcPc, abcMostWork, nInvalidate, nReconsider>>
    /\ UNCHANGED <<nPrune, nLoad>>
    /\ UNCHANGED <<utxoVars, sideVars>>

DoAcceptBlock(b, kind, fRequested, io) ==
    /\ Idle
    /\ kind \in KindsFor(b)
    /\ Install(AcceptBlock(Fresh, b, kind, fRequested, io).s)
    /\ abcRet' = "none"
    /\ UNCHANGED <<abcPc, abcMostWork, nInvalidate, nReconsider>>
    /\ UNCHANGED <<nPrune, nLoad>>
    /\ UNCHANGED <<utxoVars, sideVars>>

DoInvalidateBlock(b, io) ==
    /\ Idle
    /\ mapBlockIndex[b].known
    /\ nInvalidate < MaxInvalidate
    /\ nInvalidate' = nInvalidate + 1
    /\ Install(InvalidateBlock(Fresh, b, io).s)
    /\ abcRet' = "none"
    /\ UNCHANGED <<abcPc, abcMostWork, nReconsider>>
    /\ UNCHANGED <<nPrune, nLoad>>
    /\ UNCHANGED <<utxoVars, sideVars>>

DoReconsiderBlock(b) ==
    /\ Idle
    /\ mapBlockIndex[b].known
    /\ nReconsider < MaxReconsider
    /\ nReconsider' = nReconsider + 1
    /\ Install(ReconsiderBlock(Fresh, b))
    /\ abcRet' = "none"
    /\ UNCHANGED <<abcPc, abcMostWork, nInvalidate>>
    /\ UNCHANGED <<nPrune, nLoad>>
    /\ UNCHANGED <<utxoVars, sideVars>>

\* a call of ActivateBestChain, up to its first release of cs_main
ActivateBestChainCall(io) ==
    /\ Idle
    /\ \E r \in {ActivateBestChainIteration(Fresh, NoBlock, io)} :
           /\ Install(r.s)
           /\ abcPc' = r.pc
           /\ abcMostWork' = r.most
           /\ abcRet' = r.ret
    /\ UNCHANGED <<nInvalidate, nReconsider>>
    /\ UNCHANGED <<nPrune, nLoad>>
    /\ UNCHANGED <<utxoVars, sideVars>>

\* the loop goes round: cs_main is taken again
ActivateBestChainLoop(io) ==
    /\ abcPc = "loop"
    /\ \E r \in {ActivateBestChainIteration([Cur EXCEPT !.log = <<>>], abcMostWork, io)} :
           /\ Install(r.s)
           /\ abcPc' = r.pc
           /\ abcMostWork' = r.most
           /\ abcRet' = r.ret
    /\ UNCHANGED <<nInvalidate, nReconsider>>
    /\ UNCHANGED <<nPrune, nLoad>>
    /\ UNCHANGED <<utxoVars, sideVars>>

NoIo == [kind |-> "none", at |-> 0]

(***************************************************************************)
(* ActivateBestChain as one call, and ProcessNewBlock                      *)
(***************************************************************************)
\* the loop of ActivateBestChain run to its return; the result is [s, ret]
RECURSIVE ActivateBestChain(_, _, _)
ActivateBestChain(s, most0, io) ==
    Let(ActivateBestChainIteration(s, most0, io),
        LAMBDA r :
            IF r.pc = "idle" THEN [s |-> r.s, ret |-> r.ret]
            ELSE ActivateBestChain([r.s EXCEPT !.log = <<>>], r.most, io))

\* a ProcessNewBlock that stores the block and leaves the chain as it is
ProcessNewBlockStoresOnly(s, b, kind, fForceProcessing) ==
    Let(AcceptBlock(s, b, kind, fForceProcessing, "none"),
        LAMBDA a : [s |-> a.s, ret |-> IF a.ok THEN "true" ELSE "false"])

\* AcceptBlock, then ActivateBestChain unless the block was refused
ProcessNewBlock(s, b, kind, fForceProcessing) ==
    Let(AcceptBlock(s, b, kind, fForceProcessing, "none"),
        LAMBDA a :
            IF ~a.ok THEN [s |-> a.s, ret |-> "false"]
            ELSE ActivateBestChain(a.s, NoBlock, NoIo))

DoProcessNewBlock(b, kind, fForceProcessing) ==
    /\ Idle
    /\ kind \in KindsFor(b)
    /\ \E r \in {ProcessNewBlock(Fresh, b, kind, fForceProcessing)} :
           /\ Install(r.s)
           /\ abcRet' = r.ret
    /\ abcPc' = "idle"
    /\ abcMostWork' = NoBlock
    /\ UNCHANGED <<nInvalidate, nReconsider>>
    /\ UNCHANGED <<nPrune, nLoad>>
    /\ UNCHANGED <<utxoVars, sideVars>>

\* the runs in which the disk never fails
Next ==
    \/ \E b \in Blocks : DoAcceptBlockHeader(b)
    \/ \E b \in Blocks, kind \in BodyKinds, fRequested \in BOOLEAN :
           DoAcceptBlock(b, kind, fRequested, "none")
    \/ \E b \in Blocks : DoInvalidateBlock(b, NoIo)
    \/ \E b \in Blocks : DoReconsiderBlock(b)
    \/ ActivateBestChainCall(NoIo)
    \/ ActivateBestChainLoop(NoIo)

vars == <<chainVars, utxoVars, sideVars>>

Spec == Init /\ [][Next]_vars

\* the runs of a node that gets headers and blocks from its peers
NextBlocks ==
    \/ \E b \in Blocks : DoAcceptBlockHeader(b)
    \/ \E b \in Blocks, kind \in BodyKinds, fForceProcessing \in BOOLEAN :
           DoProcessNewBlock(b, kind, fForceProcessing)

SpecBlocks == Init /\ [][NextBlocks]_vars

\* the tip operation of a call that a disk failure strikes
MaxIoAt == 2

IoChoices == [kind : TipIoKinds, at : 1..MaxIoAt]

\* the failures of AcceptBlock: a body tampered with, WriteBlockToDisk
AcceptIoKinds == {"none", "mutated", "witness", "write"}

\* the runs in which the disk may fail and blocks may arrive tampered with
NextIo ==
    \/ \E b \in Blocks, kind \in BodyKinds, io \in AcceptIoKinds :
           DoAcceptBlock(b, kind, TRUE, io)
    \/ \E b \in Blocks, io \in IoChoices : DoInvalidateBlock(b, io)
    \/ \E io \in IoChoices : ActivateBestChainCall(io)
    \/ \E io \in IoChoices : ActivateBestChainLoop(io)

SpecIo == Init /\ [][NextIo]_vars

\* block files pruned in a run
MaxPrune == 1

\* FlushStateToDisk on a pruning node: FindFilesToPrune selects the file of b
DoPruneOneBlockFile(b) ==
    /\ Idle
    /\ nPrune < MaxPrune
    /\ mapBlockIndex[b].haveData
    /\ chainTip # NoBlock
    /\ nHeight(b) <= TipHeight(Cur) - nKeepBelowTip
    /\ nPrune' = nPrune + 1
    /\ Install(PruneOneBlockFile(Fresh, b))
    /\ abcRet' = "none"
    /\ UNCHANGED <<abcPc, abcMostWork, nInvalidate, nReconsider, nLoad>>
    /\ UNCHANGED <<utxoVars, sideVars>>

\* the runs of a node that prunes its block files
NextPrune ==
    \/ \E b \in Blocks : DoAcceptBlockHeader(b)
    \/ \E b \in Blocks, kind \in BodyKinds : DoAcceptBlock(b, kind, TRUE, "none")
    \/ \E b \in Blocks : DoInvalidateBlock(b, NoIo)
    \/ \E b \in Blocks : DoReconsiderBlock(b)
    \/ ActivateBestChainCall(NoIo)
    \/ ActivateBestChainLoop(NoIo)
    \/ \E b \in Blocks : DoPruneOneBlockFile(b)

SpecPrune == Init /\ [][NextPrune]_vars

\* restarts in a run
MaxLoad == 1

\* the node is stopped and started again: LoadBlockIndexDB rebuilds the index
DoLoadBlockIndexDB ==
    /\ Idle
    /\ nLoad < MaxLoad
    /\ nLoad' = nLoad + 1
    /\ Install(LoadBlockIndexDB(Fresh))
    /\ abcRet' = "none"
    /\ UNCHANGED <<abcPc, abcMostWork, nInvalidate, nReconsider, nPrune>>
    /\ UNCHANGED <<utxoVars, sideVars>>

\* the runs of a node that is restarted
NextLoad ==
    \/ \E b \in Blocks : DoAcceptBlockHeader(b)
    \/ \E b \in Blocks, kind \in BodyKinds : DoAcceptBlock(b, kind, TRUE, "none")
    \/ \E b \in Blocks : DoInvalidateBlock(b, NoIo)
    \/ \E b \in Blocks : DoReconsiderBlock(b)
    \/ ActivateBestChainCall(NoIo)
    \/ ActivateBestChainLoop(NoIo)
    \/ DoLoadBlockIndexDB

SpecLoad == Init /\ [][NextLoad]_vars

(***************************************************************************)
(* Connect / disconnect round trip on a single block.                      *)
(* The block has height UHeight and extends block "A"; the view holds a    *)
(* coinbase coin P, an ordinary coin Q and possibly a coin that carries    *)
(* the id of a transaction of the block.                                   *)
(***************************************************************************)
UHeight == 101

\* heights of the coinbase coin P: mature and immature at UHeight
UCoinbaseHeights == {UHeight - COINBASE_MATURITY, UHeight - COINBASE_MATURITY + 1}

UViews ==
    { [o \in d |-> IF o[1] = "P" THEN Coin(TxOut(2, FALSE), h, TRUE)
                   ELSE Coin(TxOut(1, FALSE), 50, FALSE)] :
        d \in SUBSET {<<"P", 0>>, <<"Q", 0>>, <<"T1", 0>>}, h \in UCoinbaseHeights }

UCoinbases ==
    { Tx("CB", "coinbase", <<NullOutpoint>>, <<TxOut(5, FALSE)>>, TRUE),
      Tx("P", "coinbase", <<NullOutpoint>>, <<TxOut(2, FALSE)>>, TRUE) }

UT1 ==
    { Tx("T1", "normal", in, outs, sok) :
        in \in {<<<<"P", 0>>>>, <<<<"Q", 0>>>>, <<<<"P", 0>>, <<"Q", 0>>>>,
                <<<<"CB", 0>>>>, <<<<"Q", 0>>, <<"Q", 0>>>>},
        outs \in {<<TxOut(1, FALSE)>>, <<TxOut(1, FALSE), TxOut(0, TRUE)>>, <<TxOut(3, FALSE)>>},
        sok \in BOOLEAN }

UT2 ==
    { Tx("T2", "normal", in, <<TxOut(1, FALSE)>>, TRUE) :
        in \in {<<<<"T1", 0>>>>, <<<<"Q", 0>>>>} }

UZ == { Tx("Z", "zerocoin", <<NullOutpoint>>, <<TxOut(1, FALSE)>>, TRUE) }

\* at most one transaction of each family, in the order T1, T2, Z
UTxLists ==
    { t1 \o t2 \o z : t1 \in {<<>>} \cup {<<t>> : t \in UT1},
                     t2 \in {<<>>} \cup {<<t>> : t \in UT2},
                     z \in {<<>>} \cup {<<t>> : t \in UZ} }

UBlocks ==
    { [hash |-> "B", nHeight |-> UHeight, vtx |-> <<cb>> \o txs, checkBlock |-> "ok",
       bip30Exempt |-> ex, miningOk |-> TRUE] :
        cb \in UCoinbases, txs \in UTxLists, ex \in BOOLEAN }

UIndexInit ==
    [hash |-> "B", prev |-> "A", nHeight |-> UHeight, isGenesis |-> FALSE,
     valid |-> BLOCK_VALID_TRANSACTIONS, haveUndo |-> FALSE,
     failedValid |-> FALSE, failedChild |-> FALSE]

\* the chain state stays at its initial value throughout
ChainInit ==
    /\ mapBlockIndex = [b \in Blocks |-> NewIndexEntry]
    /\ chainTip = NoBlock
    /\ pcoinsTip = EmptyView
    /\ coinsBest = NoBlock
    /\ setBlockIndexCandidates = {}
    /\ mapBlocksUnlinked = <<>>
    /\ nBlockSequenceId = 1
    /\ blockBody = [b \in Blocks |-> NoBody]
    /\ undoFile = [b \in Blocks |-> <<>>]
    /\ blockFile = {}
    /\ fRequestShutdown = FALSE
    /\ stepLog = <<>>
    /\ rejected = <<>>
    /\ abcPc = "idle"
    /\ abcMostWork = NoBlock
    /\ abcRet = "none"
    /\ nInvalidate = 0
    /\ nReconsider = 0
    /\ nPrune = 0
    /\ nLoad = 0

UtxoInit ==
    /\ ChainInit
    /\ StepOff
    /\ FlushOff
    /\ PoolOff
    /\ AuxOff
    /\ uPhase = "start"
    /\ uBlock \in UBlocks
    /\ uView \in UViews
    /\ uView0 = uView
    /\ uBest = "A"
    /\ uIndex = UIndexInit
    /\ uUndo = <<>>
    /\ uRes = "none"

\* CBlockIndex indexDummy(block) on top of the tip
IndexDummy(block, pindexPrev) ==
    [hash |-> block.hash, prev |-> pindexPrev, nHeight |-> block.nHeight, isGenesis |-> FALSE,
     valid |-> 0, haveUndo |-> FALSE, failedValid |-> FALSE, failedChild |-> FALSE]

\* TestBlockValidity on the tip pindexPrev: the block is connected to a cache
\* viewNew over pcoinsTip, which is dropped on return, with a dummy index
\* entry; the result carries what the call leaves in pcoinsTip, what it
\* appended to the undo file and the entries it put in setDirtyBlockIndex
TestBlockValidity(block, pindexPrev, coinsTip, best) ==
    Let(ConnectBlock(block, IndexDummy(block, pindexPrev), coinsTip, best, TRUE, TRUE),
        LAMBDA c :
            IF CheckBlock(block) # "ok"
            THEN [state |-> CheckBlock(block), coins |-> coinsTip, best |-> best,
                  undo |-> <<>>, dirty |-> {}]
            ELSE [state |-> c.state, coins |-> coinsTip, best |-> best,
                  undo |-> c.blockundo,
                  dirty |-> IF c.pindex # IndexDummy(block, pindexPrev)
                            THEN {block.hash} ELSE {}])

\* TestBlockValidity of the block on the view whose best block is the parent
UTestBlockValidity ==
    /\ uPhase = "start"
    /\ \E r \in {TestBlockValidity(uBlock, uBest, uView, uBest)} :
           /\ uPhase' = "tested"
           /\ uRes' = r.state
           /\ uView' = r.coins
           /\ uBest' = r.best
           /\ uUndo' = uUndo \o r.undo
           /\ setDirtyBlockIndex' = setDirtyBlockIndex \cup r.dirty
    /\ UNCHANGED <<uBlock, uIndex, uView0>>
    /\ UNCHANGED <<chainVars, bestChainStep, setDirtyFileInfo, blockTreeDb, flushCall,
                   poolVars, auxVars>>

\* ConnectBlock on the view whose best block is the parent
UConnect ==
    /\ UNCHANGED <<chainVars, sideVars>>
    /\ uPhase = "start"
    /\ \E r \in {ConnectBlock(uBlock, uIndex, uView, uBest, FALSE, TRUE)} :
           /\ uPhase' = IF r.state = "ok" THEN "connected" ELSE "refused"
           /\ uView' = r.view
           /\ uBest' = r.best
           /\ uUndo' = r.blockundo
           /\ uIndex' = r.pindex
           /\ uRes' = r.state
    /\ UNCHANGED <<uBlock, uView0>>

\* DisconnectBlock right after the successful connect
UDisconnect ==
    /\ UNCHANGED <<chainVars, sideVars>>
    /\ uPhase = "connected"
    /\ \E r \in {DisconnectBlock(uBlock, uIndex, uView, uBest, uUndo, TRUE)} :
           /\ uPhase' = "disconnected"
           /\ uView' = r.view
           /\ uBest' = r.best
           /\ uRes' = r.res
    /\ UNCHANGED <<uBlock, uIndex, uUndo, uView0>>

UtxoNext == UConnect \/ UDisconnect \/ UTestBlockValidity

SpecUtxo == UtxoInit /\ [][UtxoNext]_vars

\* shutdown is requested from outside (the stop command, a signal) while
\* ActivateBestChain is between two iterations of its loop
StartShutdown ==
    /\ abcPc = "loop"
    /\ ~fRequestShutdown
    /\ fRequestShutdown' = TRUE
    /\ UNCHANGED <<mapBlockIndex, chainTip, pcoinsTip, coinsBest, setBlockIndexCandidates,
                   mapBlocksUnlinked, nBlockSequenceId, blockBody, undoFile, blockFile,
                   stepLog, rejected, abcPc, abcMostWork, abcRet, nInvalidate, nReconsider,
                   nPrune, nLoad>>
    /\ UNCHANGED <<utxoVars, sideVars>>

\* the runs of a node that may be asked to shut down
NextShutdown ==
    \/ \E b \in Blocks : DoAcceptBlockHeader(b)
    \/ \E b \in Blocks, kind \in BodyKinds : DoAcceptBlock(b, kind, TRUE, "none")
    \/ \E b \in Blocks : DoInvalidateBlock(b, NoIo)
    \/ \E b \in Blocks : DoReconsiderBlock(b)
    \/ ActivateBestChainCall(NoIo)
    \/ ActivateBestChainLoop(NoIo)
    \/ StartShutdown

SpecShutdown == Init /\ [][NextShutdown]_vars

(***************************************************************************)
(* One ActivateBestChainStep by heights.  The old tip is NULL, the fork    *)
(* itself, or one block above the fork; the branch to pindexMostWork has   *)
(* blocks of one proof each.  ConnectTip and DisconnectTip are taken by    *)
(* their outcome.                                                          *)
(***************************************************************************)
\* the length of the branch to pindexMostWork
MaxBranch == 34

\* the proof of a block of that branch
MaxProof == 2

\* the work of the old tip above the fork
MaxOldProof == 34

UtxoOff ==
    /\ uPhase = "off"
    /\ uBlock = 0
    /\ uIndex = 0
    /\ uView = EmptyView
    /\ uBest = "A"
    /\ uUndo = <<>>
    /\ uView0 = EmptyView
    /\ uRes = "none"

\* pindexOldTip and pindexFork at the start of the step; x is the work of the
\* old tip above the fork, n and w the length and the proof of the new branch
StepStart(n, w, fOldTip, x) ==
    [pc |-> IF x > 0 THEN "disconnect" ELSE "build",
     fOldTip |-> fOldTip,
     nOldTipWork |-> (IF fOldTip THEN 1 ELSE 0) + x,
     nOldBranch |-> IF x > 0 THEN 1 ELSE 0,
     nForkHeight |-> IF fOldTip THEN 0 ELSE -1,
     nForkWork |-> IF fOldTip THEN 1 ELSE 0,
     nMostWorkHeight |-> (IF fOldTip THEN 0 ELSE -1) + n,
     nProof |-> w,
     nTipHeight |-> IF fOldTip THEN 0 ELSE -1,
     nHeight |-> IF fOldTip THEN 0 ELSE -1,
     vpindexToConnect |-> <<>>,
     fContinue |-> TRUE, fInvalidFound |-> FALSE, fBlocksDisconnected |-> FALSE,
     nConnected |-> 0, ret |-> "none"]

StepInit ==
    /\ ChainInit
    /\ UtxoOff
    /\ FlushOff
    /\ PoolOff
    /\ AuxOff
    /\ \E n \in 1..MaxBranch, w \in 1..MaxProof, fOldTip \in BOOLEAN, x \in 0..MaxOldProof :
           /\ x < n * w
           /\ ~fOldTip => x = 0
           /\ bestChainStep = StepStart(n, w, fOldTip, x)

\* nChainWork of the tip once it is on the new branch
StepTipWork(st) == st.nForkWork + (st.nTipHeight - st.nForkHeight) * st.nProof

\* the disconnect loop: one DisconnectTip
StepDisconnectTip(ok) ==
    /\ bestChainStep.pc = "disconnect"
    /\ bestChainStep' =
           IF ~ok THEN [bestChainStep EXCEPT !.pc = "returned", !.ret = "false"]
           ELSE [bestChainStep EXCEPT !.nOldBranch = @ - 1,
                                      !.fBlocksDisconnected = TRUE,
                                      !.pc = IF bestChainStep.nOldBranch = 1 THEN "build"
                                             ELSE "disconnect"]
    /\ UNCHANGED <<chainVars, utxoVars>>
    /\ UNCHANGED <<setDirtyBlockIndex, setDirtyFileInfo, blockTreeDb, flushCall, poolVars, auxVars>>

\* the list of the next batch: the heights above nHeight up to nTargetHeight
StepList(nFrom, nTargetHeight) == [i \in 1..(nTargetHeight - nFrom) |-> nFrom + i]

\* the head of the outer loop: the next batch is listed, or the step returns
StepBuildList ==
    /\ bestChainStep.pc = "build"
    /\ bestChainStep' =
           IF bestChainStep.fContinue /\ bestChainStep.nHeight # bestChainStep.nMostWorkHeight
           THEN [bestChainStep EXCEPT
                     !.vpindexToConnect =
                         StepList(bestChainStep.nHeight,
                                  Min(bestChainStep.nHeight + nConnectBatch,
                                      bestChainStep.nMostWorkHeight)),
                     !.nHeight = Min(bestChainStep.nHeight + nConnectBatch,
                                     bestChainStep.nMostWorkHeight),
                     !.pc = "connect"]
           ELSE [bestChainStep EXCEPT !.pc = "returned", !.ret = "true"]
    /\ UNCHANGED <<chainVars, utxoVars>>
    /\ UNCHANGED <<setDirtyBlockIndex, setDirtyFileInfo, blockTreeDb, flushCall, poolVars, auxVars>>

\* the tip has been moved to the head of the list: the batch is left when
\* there was no old tip or the tip has more work than the old tip
StepConnected(st) ==
    IF ~st.fOldTip \/ StepTipWork(st) > st.nOldTipWork
    THEN [st EXCEPT !.fContinue = FALSE, !.pc = "build"]
    ELSE [st EXCEPT !.pc = IF st.vpindexToConnect = <<>> THEN "build" ELSE "connect"]

\* the inner loop: one ConnectTip; r is its outcome
StepConnectTip(r) ==
    /\ bestChainStep.pc = "connect"
    /\ bestChainStep' =
           IF r = "ok"
           THEN StepConnected([bestChainStep EXCEPT
                                   !.nTipHeight = Head(bestChainStep.vpindexToConnect),
                                   !.vpindexToConnect = Tail(@),
                                   !.nConnected = @ + 1])
           ELSE IF r = "invalid"
           THEN [bestChainStep EXCEPT !.fInvalidFound = TRUE, !.fContinue = FALSE,
                                      !.pc = "build"]
           ELSE [bestChainStep EXCEPT !.pc = "returned", !.ret = "false"]
    /\ UNCHANGED <<chainVars, utxoVars>>
    /\ UNCHANGED <<setDirtyBlockIndex, setDirtyFileInfo, blockTreeDb, flushCall, poolVars, auxVars>>

StepNext ==
    \/ \E ok \in BOOLEAN : StepDisconnectTip(ok)
    \/ StepBuildList
    \/ \E r \in {"ok", "invalid", "error"} : StepConnectTip(r)

SpecStep == StepInit /\ [][StepNext]_vars

(***************************************************************************)
(* FlushStateToDisk and the dirty marks                                    *)
(***************************************************************************)
\* the index entries and the block files that get marked
FlushBlocks == {"H1", "H2"}

FlushFiles == {0, 1}

FlushModes == {"FLUSH_STATE_NONE", "FLUSH_STATE_IF_NEEDED", "FLUSH_STATE_PERIODIC",
               "FLUSH_STATE_ALWAYS"}

\* what decides a call: the coin cache is over its limit, the write and
\* the flush intervals have passed, CheckDiskSpace, WriteBatchSync and
\* pcoinsTip->Flush succeed
FlushInputs ==
    [fCacheOver : BOOLEAN, fWriteDue : BOOLEAN, fFlushDue : BOOLEAN,
     fDiskSpace : BOOLEAN, fWriteOk : BOOLEAN, fCoinsOk : BOOLEAN]

FlushInit ==
    /\ ChainInit
    /\ UtxoOff
    /\ StepOff
    /\ FlushOff
    /\ PoolOff
    /\ AuxOff

fDoFullFlush(mode, in) ==
    \/ mode = "FLUSH_STATE_ALWAYS"
    \/ (mode = "FLUSH_STATE_PERIODIC" /\ in.fCacheOver)
    \/ (mode = "FLUSH_STATE_IF_NEEDED" /\ in.fCacheOver)
    \/ (mode = "FLUSH_STATE_PERIODIC" /\ in.fFlushDue)

fPeriodicWrite(mode, in) == mode = "FLUSH_STATE_PERIODIC" /\ in.fWriteDue

\* the chainstate part of the call, f the marks after the index part
FlushChainState(f, mode, in) ==
    IF ~fDoFullFlush(mode, in) THEN [f |-> f, ret |-> "true"]
    ELSE IF ~in.fDiskSpace THEN [f |-> f, ret |-> "error"]
    ELSE IF ~in.fCoinsOk THEN [f |-> f, ret |-> "abort"]
    ELSE [f |-> f, ret |-> "true"]

\* f = [dirtyBlocks, dirtyFiles, db]; the result is [f, ret]
FlushStateToDisk(f, mode, in) ==
    IF ~(fDoFullFlush(mode, in) \/ fPeriodicWrite(mode, in)) THEN FlushChainState(f, mode, in)
    ELSE IF ~in.fDiskSpace THEN [f |-> f, ret |-> "error"]
    ELSE IF ~in.fWriteOk
    THEN [f |-> [f EXCEPT !.dirtyBlocks = {}, !.dirtyFiles = {}], ret |-> "abort"]
    ELSE FlushChainState([dirtyBlocks |-> {}, dirtyFiles |-> {},
                          db |-> [blocks |-> f.db.blocks \cup f.dirtyBlocks,
                                  files |-> f.db.files \cup f.dirtyFiles]], mode, in)

\* an index entry is changed: its record in the database is out of date
MarkBlockDirty(b) ==
    /\ setDirtyBlockIndex' = setDirtyBlockIndex \cup {b}
    /\ blockTreeDb' = [blockTreeDb EXCEPT !.blocks = @ \ {b}]
    /\ flushCall' = NoFlushCall
    /\ UNCHANGED setDirtyFileInfo
    /\ UNCHANGED <<chainVars, utxoVars, bestChainStep, poolVars, auxVars>>

\* a block file gets a block or an undo record, or is pruned
MarkFileDirty(n) ==
    /\ setDirtyFileInfo' = setDirtyFileInfo \cup {n}
    /\ blockTreeDb' = [blockTreeDb EXCEPT !.files = @ \ {n}]
    /\ flushCall' = NoFlushCall
    /\ UNCHANGED setDirtyBlockIndex
    /\ UNCHANGED <<chainVars, utxoVars, bestChainStep, poolVars, auxVars>>

DoFlushStateToDisk(mode, in) ==
    /\ \E r \in {FlushStateToDisk([dirtyBlocks |-> setDirtyBlockIndex,
                                    dirtyFiles |-> setDirtyFileInfo,
                                    db |-> blockTreeDb], mode, in)} :
           /\ setDirtyBlockIndex' = r.f.dirtyBlocks
           /\ setDirtyFileInfo' = r.f.dirtyFiles
           /\ blockTreeDb' = r.f.db
           /\ flushCall' = [ret |-> r.ret, vBlocks |-> setDirtyBlockIndex,
                            vFiles |-> setDirtyFileInfo]
    /\ UNCHANGED <<chainVars, utxoVars, bestChainStep, poolVars, auxVars>>

FlushNext ==
    \/ \E b \in FlushBlocks : MarkBlockDirty(b)
    \/ \E n \in FlushFiles : MarkFileDirty(n)
    \/ \E mode \in FlushModes, in \in FlushInputs : DoFlushStateToDisk(mode, in)

SpecFlush == FlushInit /\ [][FlushNext]_vars

(***************************************************************************)
(* The memory pool.                                                        *)
(* A pool transaction is a tx record with three more fields: nVersion,     *)
(* nSequence (one 32-bit number per input) and nSize; an entry of mapTx  *)
(* is [tx, nModifiedFees, spendsCoinbase, lp].  The chain below the pool   *)
(* is a single branch: the blocks up to PoolHeight0 are fixed, the blocks  *)
(* above are those of mpBlocks.                                            *)
(***************************************************************************)
\* a 32-bit nSequence is kept as its two 16-bit halves, hi * 2^16 + lo
Seq32(hi, lo) == [hi |-> hi, lo |-> lo]

\* 0xffffffff
SEQUENCE_FINAL == Seq32(65535, 65535)

\* 1 << 31 and 1 << 22, by the number of the bit
SEQUENCE_LOCKTIME_DISABLE_FLAG == 31

SEQUENCE_LOCKTIME_TYPE_FLAG == 22

SEQUENCE_LOCKTIME_MASK == 65535

SEQUENCE_LOCKTIME_GRANULARITY == 9

MEMPOOL_HEIGHT == 2147483647

\* nSequence & flag, for the flag of the given bit
HasFlag(nSequence, flag) ==
    IF flag >= 16 THEN (nSequence.hi \div 2^(flag - 16)) % 2 = 1
    ELSE (nSequence.lo \div 2^flag) % 2 = 1

\* nSequence & SEQUENCE_LOCKTIME_MASK
LockValue(nSequence) == nSequence.lo % (SEQUENCE_LOCKTIME_MASK + 1)

\* seconds between the median times of two consecutive blocks
BlockSpacing == 512

\* CBlockIndex::GetMedianTimePast of the block at height h of the branch
GetMedianTimePast(h) == h * BlockSpacing

Max(a, b) == IF a > b THEN a ELSE b

\* the loop of CalculateSequenceLocks over the inputs from txinIndex on
RECURSIVE SequenceLockLoop(_, _, _, _)
SequenceLockLoop(tx, prevHeights, txinIndex, lock) ==
    IF txinIndex > Len(tx.vin) THEN [lock EXCEPT !.prevHeights = prevHeights]
    ELSE IF HasFlag(tx.nSequence[txinIndex], SEQUENCE_LOCKTIME_DISABLE_FLAG)
    THEN SequenceLockLoop(tx, [prevHeights EXCEPT ![txinIndex] = 0], txinIndex + 1, lock)
    ELSE IF HasFlag(tx.nSequence[txinIndex], SEQUENCE_LOCKTIME_TYPE_FLAG)
    THEN SequenceLockLoop(tx, prevHeights, txinIndex + 1,
             [lock EXCEPT !.second =
                 Max(lock.second,
                     GetMedianTimePast(Max(prevHeights[txinIndex] - 1, 0))
                       + LockValue(tx.nSequence[txinIndex])
                           * 2^SEQUENCE_LOCKTIME_GRANULARITY
                       - 1)])
    ELSE SequenceLockLoop(tx, prevHeights, txinIndex + 1,
             [lock EXCEPT !.first =
                 Max(lock.first,
                     prevHeights[txinIndex]
                       + LockValue(tx.nSequence[txinIndex]) - 1)])

\* a CalculateSequenceLocks that counts the lock from the block after the coin's
CalculateSequenceLocksLate(tx, fVerifySequence, prevHeights) ==
    IF ~(tx.nVersion >= 2 /\ fVerifySequence)
    THEN [first |-> -1, second |-> -1, prevHeights |-> prevHeights]
    ELSE Let(SequenceLockLoop(tx, prevHeights, 1,
                 [first |-> -1, second |-> -1, prevHeights |-> prevHeights]),
             LAMBDA l : IF l.first = -1 THEN l ELSE [l EXCEPT !.first = l.first + 1])

\* the pair (nMinHeight, nMinTime) and prevHeights as the loop leaves it
CalculateSequenceLocks(tx, fVerifySequence, prevHeights) ==
    IF ~(tx.nVersion >= 2 /\ fVerifySequence)
    THEN [first |-> -1, second |-> -1, prevHeights |-> prevHeights]
    ELSE SequenceLockLoop(tx, prevHeights, 1,
             [first |-> -1, second |-> -1, prevHeights |-> prevHeights])

\* block: the height of the block and of its parent's median time
EvaluateSequenceLocks(nBlockHeight, lockPair) ==
    ~(lockPair.first >= nBlockHeight
        \/ lockPair.second >= GetMedianTimePast(nBlockHeight - 1))

\* the height up to which the branch is fixed
PoolHeight0 == 104

\* the hash of the block of the branch at height h
PoolAncestor(blocks, h) ==
    IF h <= PoolHeight0 THEN <<"base", h>> ELSE blocks[h - PoolHeight0].hash

PoolChainContains(blocks, hash) ==
    hash[1] = "base" \/ \E i \in 1..Len(blocks) : blocks[i].hash = hash

PoolHashes(pool) == {e.tx.hash : e \in pool}

PoolEntry(pool, hash) == CHOOSE e \in pool : e.tx.hash = hash

\* CCoinsViewMemPool: an output of a pool transaction, whether or not
\* another pool transaction spends it, else the coin of the base view
ViewMemPool(base, pool) ==
    [o \in UNION {{<<e.tx.hash, i - 1>> : i \in 1..Len(e.tx.vout)} : e \in pool}
             \cup {p \in DOMAIN base : p[1] \notin PoolHashes(pool)} |->
        IF o[1] \in PoolHashes(pool)
        THEN Coin(PoolEntry(pool, o[1]).tx.vout[o[2] + 1], MEMPOOL_HEIGHT, FALSE)
        ELSE base[o]]

(***************************************************************************)
(* The state a call on the pool reads: c = [pool, coins, coinsHeight,      *)
(* height, blocks, fEnableReplacement], the entries, pcoinsTip and the     *)
(* height of its best block, chainActive.Height(), the blocks of           *)
(* chainActive, and -mempoolreplacement.                                   *)
(***************************************************************************)
IsFinalTx(tx, nBlockHeight) ==
    \/ tx.nLockTime = 0
    \/ tx.nLockTime < nBlockHeight
    \/ \A j \in 1..Len(tx.vin) : tx.nSequence[j] = SEQUENCE_FINAL

CheckFinalTx(c, tx) == IsFinalTx(tx, c.height + 1)

\* the largest of the heights of the confirmed inputs
RECURSIVE MaxInputHeight(_, _, _)
MaxInputHeight(prevHeights, i, nNext) ==
    IF i > Len(prevHeights) THEN 0
    ELSE IF prevHeights[i] # nNext
    THEN Max(prevHeights[i], MaxInputHeight(prevHeights, i + 1, nNext))
    ELSE MaxInputHeight(prevHeights, i + 1, nNext)

\* result [ok, lp]; lp = [height, time, maxInputBlock]
CheckSequenceLocks(c, tx, lp, useExistingLockPoints) ==
    IF useExistingLockPoints
    THEN [ok |-> EvaluateSequenceLocks(c.height + 1, [first |-> lp.height, second |-> lp.time]),
          lp |-> lp]
    ELSE Let(ViewMemPool(c.coins, c.pool),
             LAMBDA view :
                 IF \E j \in 1..Len(tx.vin) : ~HaveCoin(view, tx.vin[j])
                 THEN [ok |-> FALSE, lp |-> lp]
                 ELSE Let(CalculateSequenceLocks(tx, TRUE,
                              [j \in 1..Len(tx.vin) |->
                                  IF view[tx.vin[j]].nHeight = MEMPOOL_HEIGHT
                                  THEN c.height + 1 ELSE view[tx.vin[j]].nHeight]),
                          LAMBDA l :
                              [ok |-> EvaluateSequenceLocks(c.height + 1, l),
                               lp |-> [height |-> l.first, time |-> l.second,
                                       maxInputBlock |->
                                           PoolAncestor(c.blocks,
                                               MaxInputHeight(l.prevHeights, 1,
                                                              c.height + 1))]]))

TestLockPointValidity(c, lp) == PoolChainContains(c.blocks, lp.maxInputBlock)

NoLockPoints == [height |-> 0, time |-> 0, maxInputBlock |-> <<"base", 0>>]

\* CFeeRate(nFeePaid, nSize): satoshis per 1000 bytes
CFeeRate(nFeePaid, nSize) == IF nSize > 0 THEN (nFeePaid * 1000) \div nSize ELSE 0

minRelayTxFee == 1000

\* CFeeRate::GetFee
GetFee(nSatoshisPerK, nSize) ==
    Let((nSatoshisPerK * nSize) \div 1000,
        LAMBDA nFee : IF nFee = 0 /\ nSize # 0 /\ nSatoshisPerK > 0 THEN 1 ELSE nFee)

\* the entries that spend an outpoint tx spends (mapNextTx)
Conflicting(pool, tx) ==
    {e \in pool : \E j \in 1..Len(tx.vin), k \in 1..Len(e.tx.vin) : e.tx.vin[k] = tx.vin[j]}

\* some input of the transaction has nSequence < max - 1
SignalsReplacement(tx) ==
    \E j \in 1..Len(tx.vin) :
        ~(tx.nSequence[j].hi = SEQUENCE_FINAL.hi /\ tx.nSequence[j].lo >= SEQUENCE_FINAL.lo - 1)

\* the entries whose outputs tx spends
PoolParents(pool, tx) ==
    {e \in pool : \E j \in 1..Len(tx.vin) : tx.vin[j][1] = e.tx.hash}

\* CalculateMemPoolAncestors: the in-pool ancestors of tx
RECURSIVE PoolAncestors(_, _)
PoolAncestors(pool, tx) ==
    PoolParents(pool, tx)
        \cup UNION {PoolAncestors(pool \ {e}, e.tx) : e \in PoolParents(pool, tx)}

\* CalculateDescendants: the entries with all their in-pool descendants
RECURSIVE CalculateDescendants(_, _)
CalculateDescendants(pool, stage) ==
    Let(stage \cup {e \in pool : \E p \in stage : p \in PoolParents(pool, e.tx)},
        LAMBDA more : IF more = stage THEN stage ELSE CalculateDescendants(pool, more))

RECURSIVE SumModifiedFees(_)
SumModifiedFees(entries) ==
    IF entries = {} THEN 0
    ELSE Let(CHOOSE e \in entries : TRUE,
             LAMBDA e : e.nModifiedFees + SumModifiedFees(entries \ {e}))

(***************************************************************************)
(* AcceptToMemoryPoolWorker                                                *)
(*   env     [fLimitFree, fRejectAbsurdFee, fDryRun]                       *)
(*   result  [ret, reason, fMissingInputs, pool, evicted]                  *)
(* The transactions of the model are standard, carry no InstantSend lock   *)
(* and stay within the ancestor, sigop and pool-size limits; tx.nMinFee    *)
(* is the verdict of CTransaction::GetMinFee and tx.fAllowFree that of     *)
(* AllowFree on the priority of the entry.                                 *)
(***************************************************************************)
PoolReject(c, reason) ==
    [ret |-> FALSE, reason |-> reason, fMissingInputs |-> FALSE, pool |-> c.pool,
     evicted |-> {}]

PoolAccept(pool, evicted) ==
    [ret |-> TRUE, reason |-> "", fMissingInputs |-> FALSE, pool |-> pool,
     evicted |-> evicted]

maxDescendantsToVisit == 100

\* the sum of GetCountWithDescendants over the direct conflicts
RECURSIVE nConflictingCount(_, _)
nConflictingCount(pool, setConflicts) ==
    IF setConflicts = {} THEN 0
    ELSE Let(CHOOSE e \in setConflicts : TRUE,
             LAMBDA e : Cardinality(CalculateDescendants(pool, {e}))
                          + nConflictingCount(pool, setConflicts \ {e}))

\* a replacement that need not pay for its own bandwidth
ReplacementReasonNoBandwidth(c, tx, nModifiedFees, setConflicts) ==
    IF \E e \in setConflicts :
           CFeeRate(nModifiedFees, tx.nSize) <= CFeeRate(e.nModifiedFees, e.tx.nSize)
    THEN "insufficient fee"
    ELSE IF nConflictingCount(c.pool, setConflicts) > maxDescendantsToVisit
    THEN "too many potential replacements"
    ELSE IF \E j \in 1..Len(tx.vin) :
                /\ \A e \in setConflicts : \A k \in 1..Len(e.tx.vin) :
                       e.tx.vin[k][1] # tx.vin[j][1]
                /\ tx.vin[j][1] \in PoolHashes(c.pool)
    THEN "replacement-adds-unconfirmed"
    ELSE IF nModifiedFees < SumModifiedFees(CalculateDescendants(c.pool, setConflicts))
    THEN "insufficient fee"
    ELSE ""

\* the replacement rules, for a set of direct conflicts that is not empty:
\* the reject reason, "" when the replacement is acceptable
ReplacementReason(c, tx, nModifiedFees, setConflicts) ==
    IF \E e \in setConflicts :
           CFeeRate(nModifiedFees, tx.nSize) <= CFeeRate(e.nModifiedFees, e.tx.nSize)
    THEN "insufficient fee"
    ELSE IF nConflictingCount(c.pool, setConflicts) > maxDescendantsToVisit
    THEN "too many potential replacements"
    ELSE IF \E j \in 1..Len(tx.vin) :
                /\ \A e \in setConflicts : \A k \in 1..Len(e.tx.vin) :
                       e.tx.vin[k][1] # tx.vin[j][1]
                /\ tx.vin[j][1] \in PoolHashes(c.pool)
    THEN "replacement-adds-unconfirmed"
    ELSE IF nModifiedFees < SumModifiedFees(CalculateDescendants(c.pool, setConflicts))
    THEN "insufficient fee"
    ELSE IF nModifiedFees - SumModifiedFees(CalculateDescendants(c.pool, setConflicts))
              < GetFee(minRelayTxFee, tx.nSize)
    THEN "insufficient fee"
    ELSE ""

\* an insertion that leaves the conflicting entries in the pool
AcceptInsertKeepsConflicts(c, tx, nFees, setConflicts, view, lp) ==
    PoolAccept(c.pool \cup {[tx |-> tx, nModifiedFees |-> nFees,
                             spendsCoinbase |->
                                 \E j \in 1..Len(tx.vin) : view[tx.vin[j]].fCoinBase,
                             lp |-> lp]},
               {})

\* RemoveStaged(allConflicting), then addUnchecked
AcceptInsert(c, tx, nFees, setConflicts, view, lp) ==
    Let(IF setConflicts = {} THEN {} ELSE CalculateDescendants(c.pool, setConflicts),
        LAMBDA allConflicting :
            PoolAccept((c.pool \ allConflicting)
                           \cup {[tx |-> tx, nModifiedFees |-> nFees,
                                  spendsCoinbase |->
                                      \E j \in 1..Len(tx.vin) : view[tx.vin[j]].fCoinBase,
                                  lp |-> lp]},
                       {e.tx.hash : e \in allConflicting}))

\* a worker that removes the conflicting entries before it verifies the
\* scripts
AcceptFeesEvictsFirst(c, tx, env, setConflicts, view, lp) ==
    Let(ValueInFrom(view, tx.vin, 1) - GetValueOut(tx),
        LAMBDA nFees :
            IF env.fLimitFree /\ nFees < tx.nMinFee THEN PoolReject(c, "not enough fee")
            ELSE IF nFees < GetFee(minRelayTxFee, tx.nSize) /\ ~tx.fAllowFree
            THEN PoolReject(c, "insufficient priority")
            ELSE IF env.fRejectAbsurdFee /\ nFees > GetFee(minRelayTxFee, tx.nSize) * 10000
            THEN PoolReject(c, "absurdly-high-fee")
            ELSE IF setConflicts \cap PoolAncestors(c.pool, tx) # {}
            THEN PoolReject(c, "bad-txns-spends-conflicting-tx")
            ELSE IF setConflicts # {} /\ ReplacementReason(c, tx, nFees, setConflicts) # ""
            THEN PoolReject(c, ReplacementReason(c, tx, nFees, setConflicts))
            ELSE IF env.fDryRun THEN PoolAccept(c.pool, {})
            ELSE IF CheckInputs(tx, view, c.coinsHeight + 1) # ""
            THEN [PoolReject(c, CheckInputs(tx, view, c.coinsHeight + 1))
                      EXCEPT !.pool = c.pool \ CalculateDescendants(c.pool, setConflicts)]
            ELSE AcceptInsert(c, tx, nFees, setConflicts, view, lp))

\* from the fee checks on, for a transaction that is no zerocoin spend
AcceptFees(c, tx, env, setConflicts, view, lp) ==
    Let(ValueInFrom(view, tx.vin, 1) - GetValueOut(tx),
        LAMBDA nFees :
            IF env.fLimitFree /\ nFees < tx.nMinFee THEN PoolReject(c, "not enough fee")
            ELSE IF nFees < GetFee(minRelayTxFee, tx.nSize) /\ ~tx.fAllowFree
            THEN PoolReject(c, "insufficient priority")
            ELSE IF env.fRejectAbsurdFee /\ nFees > GetFee(minRelayTxFee, tx.nSize) * 10000
            THEN PoolReject(c, "absurdly-high-fee")
            ELSE IF setConflicts \cap PoolAncestors(c.pool, tx) # {}
            THEN PoolReject(c, "bad-txns-spends-conflicting-tx")
            ELSE IF setConflicts # {} /\ ReplacementReason(c, tx, nFees, setConflicts) # ""
            THEN PoolReject(c, ReplacementReason(c, tx, nFees, setConflicts))
            ELSE IF env.fDryRun THEN PoolAccept(c.pool, {})
            ELSE IF CheckInputs(tx, view, c.coinsHeight + 1) # ""
            THEN PoolReject(c, CheckInputs(tx, view, c.coinsHeight + 1))
            ELSE AcceptInsert(c, tx, nFees, setConflicts, view, lp))

\* from the lookup of the inputs in the pool's view on
AcceptInputs(c, tx, env, setConflicts) ==
    Let(ViewMemPool(c.coins, c.pool),
        LAMBDA view :
            IF \E i \in 1..Len(tx.vout) : HaveCoin(view, <<tx.hash, i - 1>>)
            THEN PoolReject(c, "txn-already-known")
            ELSE IF \E j \in 1..Len(tx.vin) : ~HaveCoin(view, tx.vin[j])
            THEN [PoolReject(c, "") EXCEPT !.fMissingInputs = TRUE]
            ELSE IF ~HaveInputs(view, tx) THEN PoolReject(c, "bad-txns-inputs-spent")
            ELSE Let(CheckSequenceLocks(c, tx, NoLockPoints, FALSE),
                     LAMBDA sl :
                         IF ~sl.ok THEN PoolReject(c, "non-BIP68-final")
                         ELSE IF IsZerocoinSpend(tx) THEN PoolAccept(c.pool, {})
                         ELSE AcceptFees(c, tx, env, setConflicts, view, sl.lp)))

\* an opt-out that only nSequence = max expresses
fReplacementOptOutFinalOnly(c, e) ==
    ~(c.fEnableReplacement
        /\ \E j \in 1..Len(e.tx.vin) : e.tx.nSequence[j] # SEQUENCE_FINAL)

\* the conflicting transaction opted out of being replaced
fReplacementOptOut(c, e) == ~(c.fEnableReplacement /\ SignalsReplacement(e.tx))

\* a worker that does not ask the pool whether it has the transaction
AcceptToMemoryPoolWorkerSkipsKnown(c, tx, env) ==
    IF ~CheckTransaction(tx, c.height + 1) THEN PoolReject(c, "bad-txns")
    ELSE IF IsCoinBase(tx) THEN PoolReject(c, "coinbase")
    ELSE IF ~CheckFinalTx(c, tx) THEN PoolReject(c, "non-final")
    ELSE IF ~IsZerocoinSpend(tx)
              /\ \E e \in Conflicting(c.pool \ {e \in c.pool : e.tx.hash = tx.hash}, tx) :
                     fReplacementOptOut(c, e)
    THEN PoolReject(c, "txn-mempool-conflict")
    ELSE AcceptInputs(c, tx, env,
                      IF IsZerocoinSpend(tx) THEN {} ELSE Conflicting(c.pool, tx))

AcceptToMemoryPoolWorker(c, tx, env) ==
    IF ~CheckTransaction(tx, c.height + 1) THEN PoolReject(c, "bad-txns")
    ELSE IF IsCoinBase(tx) THEN PoolReject(c, "coinbase")
    ELSE IF ~CheckFinalTx(c, tx) THEN PoolReject(c, "non-final")
    ELSE IF tx.hash \in PoolHashes(c.pool) THEN PoolReject(c, "txn-already-in-mempool")
    ELSE IF ~IsZerocoinSpend(tx)
              /\ \E e \in Conflicting(c.pool, tx) : fReplacementOptOut(c, e)
    THEN PoolReject(c, "txn-mempool-conflict")
    ELSE AcceptInputs(c, tx, env,
                      IF IsZerocoinSpend(tx) THEN {} ELSE Conflicting(c.pool, tx))

\* the wrapper: the worker's answer (the coins cache is not modelled)
AcceptToMemoryPool(c, tx, env) == AcceptToMemoryPoolWorker(c, tx, env)

(***************************************************************************)
(* CTxMemPool: removeRecursive, removeForBlock, removeForReorg             *)
(***************************************************************************)
\* the transaction, or the entries that spend its outputs when it is not in
\* the pool, with all descendants
RemoveRecursive(pool, tx) ==
    pool \ CalculateDescendants(pool,
               IF tx.hash \in PoolHashes(pool) THEN {PoolEntry(pool, tx.hash)}
               ELSE {e \in pool : \E j \in 1..Len(e.tx.vin) : e.tx.vin[j][1] = tx.hash})

\* a removeForBlock that leaves the conflicts of the block in the pool
RECURSIVE removeForBlockOwnOnly(_, _, _)
removeForBlockOwnOnly(pool, vtx, i) ==
    IF i > Len(vtx) THEN pool
    ELSE removeForBlockOwnOnly({e \in pool : e.tx.hash # vtx[i].hash}, vtx, i + 1)

\* each transaction of the block leaves the pool, and so does every entry
\* that spends one of its inputs, with all descendants
RECURSIVE removeForBlock(_, _, _)
removeForBlock(pool, vtx, i) ==
    IF i > Len(vtx) THEN pool
    ELSE Let({e \in pool : e.tx.hash # vtx[i].hash},
             LAMBDA rest :
                 removeForBlock(rest \ CalculateDescendants(rest, Conflicting(rest, vtx[i])),
                                vtx, i + 1))

\* the entry does not belong to the pool of the next block: not final, its
\* sequence locks not met, or a coinbase it spends missing or immature
StaleForReorg(c, e, nMemPoolHeight) ==
    \/ ~CheckFinalTx(c, e.tx)
    \/ ~CheckSequenceLocks(c, e.tx, e.lp, TestLockPointValidity(c, e.lp)).ok
    \/ /\ e.spendsCoinbase
       /\ \E j \in 1..Len(e.tx.vin) :
              /\ e.tx.vin[j][1] \notin PoolHashes(c.pool)
              /\ \/ ~HaveCoin(c.coins, e.tx.vin[j])
                 \/ /\ c.coins[e.tx.vin[j]].fCoinBase
                    /\ nMemPoolHeight - c.coins[e.tx.vin[j]].nHeight < COINBASE_MATURITY

\* the stale entries leave with their descendants; lock points that rest on
\* a block no longer in the chain are recomputed
removeForReorg(c, nMemPoolHeight) ==
    { IF TestLockPointValidity(c, e.lp) THEN e
      ELSE [e EXCEPT !.lp = CheckSequenceLocks(c, e.tx, e.lp, FALSE).lp] :
        e \in c.pool \ CalculateDescendants(c.pool,
                           {s \in c.pool : StaleForReorg(c, s, nMemPoolHeight)}) }

(***************************************************************************)
(* The tip under the pool: ConnectTip, DisconnectTip and their callers     *)
(***************************************************************************)
PoolIndex(c, block) ==
    [hash |-> block.hash, prev |-> PoolAncestor(c.blocks, c.height),
     nHeight |-> block.nHeight, isGenesis |-> FALSE, valid |-> BLOCK_VALID_TRANSACTIONS,
     haveUndo |-> FALSE, failedValid |-> FALSE, failedChild |-> FALSE]

\* a ConnectTip that leaves the pool as it is
PoolConnectTipKeepsPool(c, block) ==
    Let(ConnectBlock(block, PoolIndex(c, block), c.coins, PoolAncestor(c.blocks, c.height),
                     FALSE, TRUE),
        LAMBDA r :
            IF r.state # "ok" THEN [ok |-> FALSE, c |-> c]
            ELSE [ok |-> TRUE,
                  c |-> [pool |-> c.pool,
                         coins |-> r.view, coinsHeight |-> c.height + 1,
                         height |-> c.height + 1,
                         fEnableReplacement |-> c.fEnableReplacement,
                         blocks |-> Append(c.blocks,
                                       [hash |-> block.hash, block |-> block,
                                        pindex |-> r.pindex, undo |-> r.blockundo])]])

\* ConnectTip: ConnectBlock on pcoinsTip, removeForBlock, UpdateTip
PoolConnectTip(c, block) ==
    Let(ConnectBlock(block, PoolIndex(c, block), c.coins, PoolAncestor(c.blocks, c.height),
                     FALSE, TRUE),
        LAMBDA r :
            IF r.state # "ok" THEN [ok |-> FALSE, c |-> c]
            ELSE [ok |-> TRUE,
                  c |-> [pool |-> removeForBlock(c.pool, block.vtx, 1),
                         coins |-> r.view, coinsHeight |-> c.height + 1,
                         height |-> c.height + 1,
                         fEnableReplacement |-> c.fEnableReplacement,
                         blocks |-> Append(c.blocks,
                                       [hash |-> block.hash, block |-> block,
                                        pindex |-> r.pindex, undo |-> r.blockundo])]])

\* the calls of DisconnectTip on the transactions of the block from vtx[i] on:
\* AcceptToMemoryPool(mempool, stateDummy, tx, false, NULL, true), and
\* mempool.remove(tx, removed, true) for the coinbase and the refused
RECURSIVE Resurrect(_, _, _)
Resurrect(c, vtx, i) ==
    IF i > Len(vtx) THEN c.pool
    ELSE Let(IF IsCoinBase(vtx[i]) THEN PoolReject(c, "coinbase")
             ELSE AcceptToMemoryPool(c, [vtx[i] EXCEPT !.bip68Final = TRUE],
                      [fLimitFree |-> FALSE, fRejectAbsurdFee |-> FALSE,
                       fDryRun |-> FALSE]),
             LAMBDA r :
                 Resurrect([c EXCEPT !.pool = IF r.ret THEN r.pool
                                              ELSE RemoveRecursive(r.pool, vtx[i])],
                           vtx, i + 1))

\* DisconnectTip: DisconnectBlock on pcoinsTip, the transactions of the block
\* go back to the pool while chainActive still ends with the block, UpdateTip
PoolDisconnectTip(c) ==
    Let(c.blocks[Len(c.blocks)],
        LAMBDA top :
            Let(DisconnectBlock(top.block, top.pindex, c.coins, top.hash, top.undo, TRUE),
                LAMBDA r :
                    IF ~DisconnectTipAccepts(r.res) THEN [ok |-> FALSE, c |-> c]
                    ELSE [ok |-> TRUE,
                          c |-> [pool |-> Resurrect([c EXCEPT !.coins = r.view,
                                                              !.coinsHeight = c.height - 1],
                                                    top.block.vtx, 1),
                                 coins |-> r.view, coinsHeight |-> c.height - 1,
                                 height |-> c.height - 1,
                                 fEnableReplacement |-> c.fEnableReplacement,
                                 blocks |-> SubSeq(c.blocks, 1, Len(c.blocks) - 1)]]))

\* n calls of DisconnectTip, stopping at the first that fails
RECURSIVE PoolDisconnectTips(_, _)
PoolDisconnectTips(c, n) ==
    IF n = 0 THEN [ok |-> TRUE, c |-> c]
    ELSE Let(PoolDisconnectTip(c),
             LAMBDA r : IF ~r.ok THEN r ELSE PoolDisconnectTips(r.c, n - 1))

\* the block on top of the tip that holds the transactions txs after its
\* coinbase; bip68Final is SequenceLocks on the heights of the coins spent
PoolBlock(c, txs) ==
    [hash |-> <<"B", c.height + 1, [i \in 1..Len(txs) |-> txs[i].hash]>>,
     nHeight |-> c.height + 1,
     vtx |-> <<Tx("cb" \o ToString(c.height + 1), "coinbase", <<NullOutpoint>>,
                  <<TxOut(5000, FALSE)>>, TRUE)>>
               \o [i \in 1..Len(txs) |->
                      [txs[i] EXCEPT !.bip68Final =
                          EvaluateSequenceLocks(c.height + 1,
                              CalculateSequenceLocks(txs[i], TRUE,
                                  [j \in 1..Len(txs[i].vin) |->
                                      IF HaveCoin(c.coins, txs[i].vin[j])
                                      THEN c.coins[txs[i].vin[j]].nHeight
                                      ELSE c.height + 1]))]],
     checkBlock |-> "ok", bip30Exempt |-> FALSE, miningOk |-> TRUE]

\* the blocks of vpindexToConnect, given by their transactions, stopping at
\* the first that does not connect
RECURSIVE PoolConnectTips(_, _, _)
PoolConnectTips(c, lists, i) ==
    IF i > Len(lists) THEN [ok |-> TRUE, c |-> c]
    ELSE Let(PoolConnectTip(c, PoolBlock(c, lists[i])),
             LAMBDA r : IF ~r.ok THEN r ELSE PoolConnectTips(r.c, lists, i + 1))

\* ActivateBestChainStep towards a branch that leaves the chain nDisconnect
\* blocks below the tip: result [ret, c]
PoolActivateBestChainStep(c, nDisconnect, lists) ==
    Let(PoolDisconnectTips(c, nDisconnect),
        LAMBDA d :
            IF ~d.ok THEN [ret |-> FALSE, c |-> d.c]
            ELSE Let(PoolConnectTips(d.c, lists, 1),
                     LAMBDA n :
                         [ret |-> TRUE,
                          c |-> IF nDisconnect > 0
                                THEN [n.c EXCEPT !.pool = removeForReorg(n.c, n.c.height + 1)]
                                ELSE n.c]))

\* InvalidateBlock of the block nDisconnect - 1 blocks below the tip
PoolInvalidateBlock(c, nDisconnect) ==
    Let(PoolDisconnectTips(c, nDisconnect),
        LAMBDA d : [ret |-> d.ok,
                    c |-> [d.c EXCEPT !.pool = removeForReorg(d.c, d.c.height + 1)]])

\* DisconnectBlocks(blocks)
DisconnectBlocks(c, blocks) ==
    Let(PoolDisconnectTips(c, blocks), LAMBDA d : [ret |-> d.ok, c |-> d.c])

(***************************************************************************)
(* A pool over a short branch.  The confirmed coins at PoolHeight0 are A,  *)
(* an ordinary coin three blocks deep, and K, a coinbase coin that matures *)
(* with the next block; the outpoint S:0 was spent below PoolHeight0 and   *)
(* N:0 never existed.                                                      *)
(***************************************************************************)
MaxPoolBlocks == 2

PoolCoins0 ==
    [o \in {<<"A", 0>>, <<"K", 0>>} |->
        IF o[1] = "A" THEN Coin(TxOut(3000, FALSE), PoolHeight0 - 3, FALSE)
        ELSE Coin(TxOut(3000, FALSE), PoolHeight0 + 2 - COINBASE_MATURITY, TRUE)]

PoolSpent0 == {<<"S", 0>>}

PoolTx(hash, in, seqs, nValueOut, nVersion, nLockTime, nSize) ==
    [hash |-> hash, kind |-> "normal", vin |-> in, vout |-> <<TxOut(nValueOut, FALSE)>>,
     scriptOk |-> TRUE, bip68Final |-> TRUE, nVersion |-> nVersion, nSequence |-> seqs,
     nLockTime |-> nLockTime, nSize |-> nSize, nMinFee |-> 0, fAllowFree |-> FALSE]

\* the relative lock of T7, in blocks
PoolLock == 5

PoolT1 == PoolTx("T1", <<<<"A", 0>>>>, <<Seq32(0, 0)>>, 2000, 1, 0, 200)

PoolT3 == PoolTx("T3", <<<<"T1", 0>>>>, <<Seq32(0, 0)>>, 1500, 1, 0, 200)

PoolTxs ==
    { PoolT1,
      PoolTx("T1n", <<<<"A", 0>>>>, <<Seq32(65535, 65534)>>, 2000, 1, 0, 200),
      PoolTx("T2", <<<<"A", 0>>>>, <<SEQUENCE_FINAL>>, 500, 1, 0, 200),
      PoolTx("T2l", <<<<"A", 0>>>>, <<SEQUENCE_FINAL>>, 1900, 1, 0, 200),
      [PoolTx("T2s", <<<<"A", 0>>>>, <<SEQUENCE_FINAL>>, 500, 1, 0, 200)
           EXCEPT !.scriptOk = FALSE],
      PoolT3,
      PoolTx("T4", <<<<"K", 0>>>>, <<Seq32(0, 0)>>, 2000, 1, 0, 200),
      PoolTx("T5", <<<<"N", 0>>>>, <<Seq32(0, 0)>>, 2000, 1, 0, 200),
      PoolTx("T6", <<<<"S", 0>>>>, <<Seq32(0, 0)>>, 2000, 1, 0, 200),
      PoolTx("T7", <<<<"A", 0>>>>, <<Seq32(0, PoolLock)>>, 2000, 2, 0, 200),
      PoolTx("T8", <<<<"A", 0>>>>, <<Seq32(0, 0)>>, 2000, 1, PoolHeight0 + 1, 200),
      PoolTx("T9", <<<<"A", 0>>, <<"K", 0>>>>, <<Seq32(0, 0), Seq32(0, 0)>>, 3000, 1, 0, 300) }

PoolEnvs ==
    { [fLimitFree |-> TRUE, fRejectAbsurdFee |-> TRUE, fDryRun |-> d] : d \in BOOLEAN }

\* the transactions of the blocks that arrive
PoolBlockLists ==
    {<<>>, <<PoolT1, PoolT3>>}
        \cup {<<tx>> : tx \in {t \in PoolTxs : t.hash \in {"T1", "T2", "T4", "T5", "T7", "T8"}}}

\* the branches that arrive: the blocks above the fork
PoolBranches == {<<b>> : b \in PoolBlockLists} \cup {<<b, <<>>>> : b \in PoolBlockLists}

PoolInit ==
    /\ ChainInit
    /\ UtxoOff
    /\ StepOff
    /\ FlushOff
    /\ AuxOff
    /\ mpTx = {}
    /\ mpCoins = PoolCoins0
    /\ mpHeight = PoolHeight0
    /\ mpBlocks = <<>>
    /\ mpCall = NoPoolCall
    /\ fEnableReplacement \in BOOLEAN

PoolCur ==
    [pool |-> mpTx, coins |-> mpCoins, coinsHeight |-> mpHeight, height |-> mpHeight,
     blocks |-> mpBlocks, fEnableReplacement |-> fEnableReplacement]

PoolInstall(c) ==
    /\ mpTx' = c.pool
    /\ mpCoins' = c.coins
    /\ mpHeight' = c.height
    /\ mpBlocks' = c.blocks

notPoolVars ==
    <<chainVars, utxoVars, bestChainStep, setDirtyBlockIndex, setDirtyFileInfo,
      blockTreeDb, flushCall, fEnableReplacement, auxVars>>

\* a transaction arrives: AcceptToMemoryPool under cs_main
DoAcceptToMemoryPool(tx, env) ==
    /\ \E r \in {AcceptToMemoryPool(PoolCur, tx, env)} :
           /\ mpTx' = r.pool
           /\ mpCall' = [op |-> "accept", tx |-> tx.hash, ret |-> r.ret, reason |-> r.reason,
                         fMissingInputs |-> r.fMissingInputs, evicted |-> r.evicted]
    /\ UNCHANGED <<mpCoins, mpHeight, mpBlocks>>
    /\ UNCHANGED notPoolVars

\* the blocks given by lists pass ContextualCheckBlock on top of height h
PoolListsFinal(lists, h) ==
    \A i \in 1..Len(lists) : \A k \in 1..Len(lists[i]) : IsFinalTx(lists[i][k], h + i)

\* a branch with more work is known: one ActivateBestChainStep under cs_main
DoPoolActivateBestChainStep(nDisconnect, lists) ==
    /\ nDisconnect <= Len(mpBlocks)
    /\ Len(lists) > nDisconnect
    /\ mpHeight - nDisconnect + Len(lists) <= PoolHeight0 + MaxPoolBlocks
    /\ PoolListsFinal(lists, mpHeight - nDisconnect)
    /\ \E r \in {PoolActivateBestChainStep(PoolCur, nDisconnect, lists)} :
           /\ PoolInstall(r.c)
           /\ mpCall' = [op |-> "step", ret |-> r.ret, nDisconnect |-> nDisconnect]
    /\ UNCHANGED notPoolVars

DoPoolInvalidateBlock(nDisconnect) ==
    /\ nDisconnect \in 1..Len(mpBlocks)
    /\ \E r \in {PoolInvalidateBlock(PoolCur, nDisconnect)} :
           /\ PoolInstall(r.c)
           /\ mpCall' = [op |-> "invalidate", ret |-> r.ret, nDisconnect |-> nDisconnect]
    /\ UNCHANGED notPoolVars

DoDisconnectBlocks(blocks) ==
    /\ blocks \in 1..Len(mpBlocks)
    /\ \E r \in {DisconnectBlocks(PoolCur, blocks)} :
           /\ PoolInstall(r.c)
           /\ mpCall' = [op |-> "disconnect", ret |-> r.ret, nDisconnect |-> blocks]
    /\ UNCHANGED notPoolVars

PoolNext ==
    \/ \E tx \in PoolTxs, env \in PoolEnvs : DoAcceptToMemoryPool(tx, env)
    \/ \E nDisconnect \in 0..MaxPoolBlocks, lists \in PoolBranches :
           DoPoolActivateBestChainStep(nDisconnect, lists)
    \/ \E nDisconnect \in 1..MaxPoolBlocks : DoPoolInvalidateBlock(nDisconnect)
    \/ \E blocks \in 1..MaxPoolBlocks : DoDisconnectBlocks(blocks)

SpecPool == PoolInit /\ [][PoolNext]_vars

(***************************************************************************)
(* The script-check queue: ConnectBlock as the controller of               *)
(* scriptcheckqueue, the worker threads of ThreadScriptCheck               *)
(***************************************************************************)
\* the worker threads (nScriptCheckThreads - 1 of them)
nScriptWorkers == 2

\* the batch size scriptcheckqueue is constructed with
nBatchSize == 2

\* the locals of a thread in CCheckQueue::Loop: pc "wait" is the wait on
\* the condition variable, "exec" the execution of vChecks outside the mutex
LoopIdle == [pc |-> "wait", nNow |-> 0, fOk |-> TRUE, vChecks |-> <<>>, sawFalse |-> FALSE]

\* the shared part of the queue
CheckQueue == [queue |-> cqQueue, nTodo |-> nTodo, fAllOk |-> fAllOk]

\* the last n elements of a sequence and what is before them
Back(s, n) == SubSeq(s, Len(s) - n + 1, Len(s))

Front(s, n) == SubSeq(s, 1, Len(s) - n)

\* CCheckQueue::Loop from the top of the do loop to the end of the critical
\* section: the results of the previous batch are folded into fAllOk and
\* nTodo, then either a batch of n checks is taken, or the thread waits, or
\* the master returns fAllOk and resets it
Loop(q, w, fMaster, n) ==
    Let(IF w.nNow > 0
        THEN [q EXCEPT !.fAllOk = q.fAllOk /\ w.fOk, !.nTodo = q.nTodo - w.nNow]
        ELSE q,
        LAMBDA q1 :
            IF q1.queue = <<>>
            THEN IF fMaster /\ q1.nTodo = 0
                 THEN [q |-> [q1 EXCEPT !.fAllOk = TRUE],
                       w |-> [LoopIdle EXCEPT !.sawFalse = w.sawFalse], returned |-> TRUE,
                       fRet |-> q1.fAllOk]
                 ELSE [q |-> q1, w |-> [LoopIdle EXCEPT !.sawFalse = w.sawFalse],
                       returned |-> FALSE, fRet |-> FALSE]
            ELSE [q |-> [q1 EXCEPT !.queue = Front(q1.queue, n)],
                  w |-> [pc |-> "exec", nNow |-> n, fOk |-> q1.fAllOk,
                         vChecks |-> Back(q1.queue, n), sawFalse |-> w.sawFalse],
                  returned |-> FALSE, fRet |-> FALSE])

\* the batch sizes a thread may take from the queue
BatchSizes(q) == 1..Min(nBatchSize, Len(q.queue))

\* the execution of vChecks: a check runs only while fOk holds
Execute(w) ==
    [w EXCEPT !.pc = "lock",
              !.fOk = w.fOk /\ \A k \in 1..Len(w.vChecks) : w.vChecks[k],
              !.vChecks = <<>>,
              !.sawFalse = w.sawFalse \/ (w.fOk /\ \E k \in 1..Len(w.vChecks) : ~w.vChecks[k])]

\* CCheckQueue::Add
Add(q, vChecks) ==
    [q EXCEPT !.queue = q.queue \o vChecks, !.nTodo = q.nTodo + Len(vChecks)]

\* ConnectBlock from control.Wait() on, told a failed script check as true
ConnectBlockAfterWaitUnheeded(c, fRet, undoWriteOk) ==
    ConnectBlockFinish(c.block, c.pindex, EmptyView, c.best, c.fJustCheck, undoWriteOk,
                       [state |-> "ok", reason |-> "", view |-> EmptyView,
                        blockundo |-> <<"undo">>])

\* ConnectBlock from control.Wait() on
ConnectBlockAfterWait(c, fRet, undoWriteOk) ==
    IF ~fRet THEN ConnectFail("invalid", "script-check", c.pindex, EmptyView, c.best)
    ELSE ConnectBlockFinish(c.block, c.pindex, EmptyView, c.best, c.fJustCheck, undoWriteOk,
                            [state |-> "ok", reason |-> "", view |-> EmptyView,
                             blockundo |-> <<"undo">>])

\* the transactions after the coinbase: the script of each input holds or
\* not, and the checks CheckInputs makes itself pass or not
CqTx(scripts, inputsOk) == [scripts |-> scripts, inputsOk |-> inputsOk]

CqTxs ==
    {CqTx(<<TRUE>>, TRUE), CqTx(<<FALSE>>, TRUE), CqTx(<<TRUE, FALSE>>, TRUE),
     CqTx(<<TRUE, TRUE>>, TRUE), CqTx(<<TRUE>>, FALSE)}

CqBlocks ==
    {[vtx |-> vtx, miningOk |-> m] :
         vtx \in {<<t>> : t \in CqTxs} \cup {<<t, u>> : t, u \in CqTxs}, m \in BOOLEAN}

\* the entry of the block: connected for the first time, or once before
CqIndexes ==
    {[hash |-> "B", haveUndo |-> u, valid |-> IF u THEN BLOCK_VALID_SCRIPTS
                                                 ELSE BLOCK_VALID_TRANSACTIONS,
      failedValid |-> FALSE, failedChild |-> FALSE] : u \in BOOLEAN}

CqInit ==
    /\ ChainInit
    /\ UtxoOff
    /\ StepOff
    /\ FlushOff
    /\ PoolOff
    /\ cqCtl = [pc |-> "off"]
    /\ cqQueue = <<>>
    /\ nTodo = 0
    /\ fAllOk = TRUE
    /\ cqWorker = [w \in 1..nScriptWorkers |-> LoopIdle]
    /\ RewardOff
    /\ FilesOff

notCheckVars ==
    <<chainVars, utxoVars, bestChainStep, setDirtyBlockIndex, setDirtyFileInfo,
      blockTreeDb, flushCall, poolVars, rewardVars, fileVars>>

CqInstall(q) ==
    /\ cqQueue' = q.queue
    /\ nTodo' = q.nTodo
    /\ fAllOk' = q.fAllOk

\* ConnectBlock is entered with the control of the queue
CqConnectBlock(block, pindex, fJustCheck) ==
    /\ cqCtl.pc \in {"off", "done"}
    /\ cqCtl' = [pc |-> "loop", block |-> block, i |-> 1, pindex |-> pindex, pindex0 |-> pindex,
                 best |-> "prev", fJustCheck |-> fJustCheck, master |-> LoopIdle,
                 after |-> "", ret |-> FALSE, undoWritten |-> FALSE]
    /\ cqWorker' = [w \in 1..nScriptWorkers |-> [cqWorker[w] EXCEPT !.sawFalse = FALSE]]
    /\ UNCHANGED <<cqQueue, nTodo, fAllOk>>
    /\ UNCHANGED notCheckVars

\* one transaction of the loop: CheckInputs fills vChecks, control.Add
\* queues them; a failure of CheckInputs itself leaves the function, and the
\* destructor of control waits for the queue
CqLoopTx ==
    /\ cqCtl.pc = "loop"
    /\ cqCtl.i <= Len(cqCtl.block.vtx)
    /\ IF cqCtl.block.vtx[cqCtl.i].inputsOk
       THEN /\ CqInstall(Add(CheckQueue, cqCtl.block.vtx[cqCtl.i].scripts))
            /\ cqCtl' = [cqCtl EXCEPT !.i = cqCtl.i + 1]
       ELSE /\ cqCtl' = [cqCtl EXCEPT !.pc = "wait", !.after = "return"]
            /\ UNCHANGED <<cqQueue, nTodo, fAllOk>>
    /\ UNCHANGED cqWorker
    /\ UNCHANGED notCheckVars

\* after the loop: SmartMining::Validate, then control.Wait()
CqValidate ==
    /\ cqCtl.pc = "loop"
    /\ cqCtl.i > Len(cqCtl.block.vtx)
    /\ cqCtl' = [cqCtl EXCEPT !.pc = "wait",
                              !.after = IF cqCtl.block.miningOk THEN "finish" ELSE "return"]
    /\ UNCHANGED <<cqQueue, nTodo, fAllOk, cqWorker>>
    /\ UNCHANGED notCheckVars

\* the controller in Wait(): a pass through the critical section of Loop as
\* the master; when the queue is quiescent ConnectBlock goes on with the
\* answer, or has left already and only the destructor was waiting
CqWait(n, undoWriteOk) ==
    /\ cqCtl.pc = "wait"
    /\ cqCtl.master.pc \in {"wait", "lock"}
    /\ cqCtl.master.pc = "wait" => (cqQueue # <<>> \/ nTodo = 0)
    /\ n \in BatchSizes(CheckQueue) \cup {1}
    /\ IF cqQueue = <<>> THEN n = 1 ELSE undoWriteOk
    /\ \E r \in {Loop(CheckQueue, cqCtl.master, TRUE, n)} :
           /\ CqInstall(r.q)
           /\ IF ~r.returned
              THEN cqCtl' = [cqCtl EXCEPT !.master = r.w]
              ELSE IF cqCtl.after = "return"
              THEN cqCtl' = [cqCtl EXCEPT !.pc = "done", !.master = r.w, !.ret = FALSE]
              ELSE \E f \in {ConnectBlockAfterWait(cqCtl, r.fRet, undoWriteOk)} :
                       cqCtl' = [cqCtl EXCEPT !.pc = "done", !.master = r.w,
                                              !.ret = (f.state = "ok"),
                                              !.pindex = f.pindex, !.best = f.best,
                                              !.undoWritten = (f.blockundo # <<>>)]
    /\ UNCHANGED cqWorker
    /\ UNCHANGED notCheckVars

\* the controller executes the batch it took
CqWaitExecute ==
    /\ cqCtl.pc = "wait"
    /\ cqCtl.master.pc = "exec"
    /\ cqCtl' = [cqCtl EXCEPT !.master = Execute(cqCtl.master)]
    /\ UNCHANGED <<cqQueue, nTodo, fAllOk, cqWorker>>
    /\ UNCHANGED notCheckVars

\* a worker thread passes through the critical section of Loop
CqWorkerLoop(w, n) ==
    /\ cqWorker[w].pc \in {"wait", "lock"}
    /\ cqWorker[w].pc = "wait" => cqQueue # <<>>
    /\ n \in BatchSizes(CheckQueue) \cup {1}
    /\ cqQueue = <<>> => n = 1
    /\ \E r \in {Loop(CheckQueue, cqWorker[w], FALSE, n)} :
           /\ CqInstall(r.q)
           /\ cqWorker' = [cqWorker EXCEPT ![w] = r.w]
    /\ UNCHANGED cqCtl
    /\ UNCHANGED notCheckVars

\* a worker thread executes the batch it took
CqWorkerExecute(w) ==
    /\ cqWorker[w].pc = "exec"
    /\ cqWorker' = [cqWorker EXCEPT ![w] = Execute(cqWorker[w])]
    /\ UNCHANGED <<cqCtl, cqQueue, nTodo, fAllOk>>
    /\ UNCHANGED notCheckVars

CqNext ==
    \/ \E block \in CqBlocks, pindex \in CqIndexes, fJustCheck \in BOOLEAN :
           CqConnectBlock(block, pindex, fJustCheck)
    \/ CqLoopTx
    \/ CqValidate
    \/ \E n \in 1..nBatchSize, undoWriteOk \in BOOLEAN : CqWait(n, undoWriteOk)
    \/ CqWaitExecute
    \/ \E w \in 1..nScriptWorkers, n \in 1..nBatchSize : CqWorkerLoop(w, n)
    \/ \E w \in 1..nScriptWorkers : CqWorkerExecute(w)

SpecScript == CqInit /\ [][CqNext]_vars

(***************************************************************************)
(* The block reward: GetBlockSubsidy and GetBlockValue.  Amounts are in    *)
(* whole coins: every amount the two functions compute is a multiple of    *)
(* COIN, and 5000 * COIN is within int64_t                                 *)
(***************************************************************************)
HF_CHAIN_REWARD_END_HEIGHT == 717499999

\* the last height of the flat reward
nLastFlatHeight == 143499

\* floor(0.5 + (double)n / d) for 0 < d, n < 2^31: the quotient is away
\* from k + 0.5 by at least 1 / (2 d) unless it is k + 0.5, far more than the
\* error of a double near 5000, so the double gives the exact rounding
FloorHalfUp(n, d) == (n \div d) + (IF 2 * (n % d) >= d THEN 1 ELSE 0)

GetBlockSubsidy(h) ==
    IF h = 0 THEN 0
    ELSE IF h > nLastFlatHeight /\ h <= HF_CHAIN_REWARD_END_HEIGHT
    THEN FloorHalfUp(5000 * (nLastFlatHeight + 1), h + 1)
    ELSE 5000

\* the assignments to value in the order of the function; fEarly is
\* nTime < nStartRewardTime on the main net
GetBlockValue(h, nFees, fEarly) ==
    Let(0,
        LAMBDA v1 :
            Let(IF fEarly \/ h = 0 THEN 0 ELSE v1,
                LAMBDA v2 :
                    Let(IF h > 0 /\ h <= nLastFlatHeight THEN 5000 + nFees ELSE v2,
                        LAMBDA v3 :
                            Let(IF h > nLastFlatHeight
                                     /\ h <= HF_CHAIN_REWARD_END_HEIGHT
                                THEN FloorHalfUp(5000 * (nLastFlatHeight + 1), h + 1)
                                         + nFees
                                ELSE v3,
                                LAMBDA v4 :
                                    IF h > HF_CHAIN_REWARD_END_HEIGHT THEN nFees
                                    ELSE v4))))

\* how far around each turn of the schedule the heights are taken
RewardSpan == 12

\* the heights around the genesis block, the end of the flat reward, the
\* first height that rounds down (143509: 717500000 / 143510 = 4999.65) and
\* the end of the rewards, and the greatest int
RewardHeights ==
    (0..RewardSpan)
        \cup ((nLastFlatHeight - RewardSpan)..(nLastFlatHeight + RewardSpan))
        \cup ((HF_CHAIN_REWARD_END_HEIGHT - RewardSpan)..(HF_CHAIN_REWARD_END_HEIGHT + RewardSpan))
        \cup {286999, 478333333, 2147483647}

RewardInit ==
    /\ ChainInit
    /\ UtxoOff
    /\ StepOff
    /\ FlushOff
    /\ PoolOff
    /\ ChecksOff
    /\ FilesOff
    /\ rwHeight \in RewardHeights
    /\ rwCall = [op |-> "none"]

notRewardVars ==
    <<chainVars, utxoVars, bestChainStep, setDirtyBlockIndex, setDirtyFileInfo,
      blockTreeDb, flushCall, poolVars, checkVars, fileVars>>

\* the reward of a block at rwHeight is asked for
DoGetBlockSubsidy ==
    /\ rwCall' = [op |-> "subsidy", nHeight |-> rwHeight, ret |-> GetBlockSubsidy(rwHeight)]
    /\ UNCHANGED rwHeight
    /\ UNCHANGED notRewardVars

DoGetBlockValue(nFees, fEarly) ==
    /\ rwCall' = [op |-> "value", nHeight |-> rwHeight, nFees |-> nFees,
                  ret |-> GetBlockValue(rwHeight, nFees, fEarly)]
    /\ UNCHANGED rwHeight
    /\ UNCHANGED notRewardVars

RewardNext ==
    \/ DoGetBlockSubsidy
    \/ \E nFees \in 0..1, fEarly \in BOOLEAN : DoGetBlockValue(nFees, fEarly)

SpecReward == RewardInit /\ [][RewardNext]_vars

(***************************************************************************)
(* The block files: FindBlockPos, FindUndoPos, FindFilesToPrune and        *)
(* PruneOneBlockFile by file number.  A block and its undo data have size  *)
(* 1; the keep window is nKeepBelowTip, as in the runs of a pruning node   *)
(***************************************************************************)
\* the heights of the blocks, the file numbers, the size that closes a file
MaxFindHeight == 5

MaxFile == 3

MaxBlockFileSize == 3

\* BLOCKFILE_CHUNK_SIZE + UNDOFILE_CHUNK_SIZE
nPruneBuffer == 1

\* an unsigned int as its two 16-bit halves
U32(x) == [hi |-> (x \div 65536) % 65536, lo |-> x % 65536]

GreaterU32(a, b) == a.hi > b.hi \/ (a.hi = b.hi /\ a.lo > b.lo)

\* CBlockFileInfo
NullFileInfo ==
    [nBlocks |-> 0, nSize |-> 0, nUndoSize |-> 0, nHeightFirst |-> 0, nHeightLast |-> 0]

AddBlock(info, h) ==
    [info EXCEPT !.nHeightFirst = IF info.nBlocks = 0 \/ info.nHeightFirst > h THEN h ELSE @,
                 !.nBlocks = @ + 1,
                 !.nHeightLast = IF h > info.nHeightLast THEN h ELSE @]

NullFileEntry == [nFile |-> 0, haveData |-> FALSE, haveUndo |-> FALSE]

\* the while loop of FindBlockPos: the first file from nFile on with room
RECURSIVE FindBlockFile(_, _, _)
FindBlockFile(vinfo, nFile, nAddSize) ==
    IF nFile <= MaxFile /\ vinfo[nFile].nSize + nAddSize >= MaxBlockFileSize
    THEN FindBlockFile(vinfo, nFile + 1, nAddSize)
    ELSE nFile

\* FindBlockPos with fKnown = false for a block of size 1 at height h
FindBlockPos(f, h) ==
    Let(FindBlockFile(f.vinfo, f.nLast, 1),
        LAMBDA nFile :
            [f EXCEPT !.nLast = nFile,
                      !.vinfo[nFile] = [AddBlock(f.vinfo[nFile], h) EXCEPT !.nSize = @ + 1],
                      !.idx[h] = [nFile |-> nFile, haveData |-> TRUE, haveUndo |-> FALSE]])

CalculateCurrentUsage(vinfo) ==
    LET RECURSIVE Sum(_)
        Sum(n) == IF n > MaxFile THEN 0 ELSE vinfo[n].nSize + vinfo[n].nUndoSize + Sum(n + 1)
    IN Sum(0)

\* PruneOneBlockFile: every entry whose nFile is fileNumber
PruneOneBlockFileNumber(f, fileNumber) ==
    [f EXCEPT !.idx = [h \in DOMAIN f.idx |->
                           IF f.idx[h].nFile = fileNumber THEN NullFileEntry ELSE f.idx[h]],
              !.vinfo[fileNumber] = NullFileInfo]

\* the loop of FindFilesToPrune over the files before nLastBlockFile
RECURSIVE FindFilesLoop(_, _, _, _, _)
FindFilesLoop(f, fileNumber, nCurrentUsage, nLastBlockWeCanPrune, setFilesToPrune) ==
    IF fileNumber >= f.nLast THEN [f |-> f, setFilesToPrune |-> setFilesToPrune]
    ELSE IF f.vinfo[fileNumber].nSize = 0
    THEN FindFilesLoop(f, fileNumber + 1, nCurrentUsage, nLastBlockWeCanPrune, setFilesToPrune)
    ELSE IF nCurrentUsage + nPruneBuffer < f.nPruneTarget
    THEN [f |-> f, setFilesToPrune |-> setFilesToPrune]
    ELSE IF GreaterU32(U32(f.vinfo[fileNumber].nHeightLast), nLastBlockWeCanPrune)
    THEN FindFilesLoop(f, fileNumber + 1, nCurrentUsage, nLastBlockWeCanPrune, setFilesToPrune)
    ELSE FindFilesLoop(PruneOneBlockFileNumber(f, fileNumber), fileNumber + 1,
                       nCurrentUsage - f.vinfo[fileNumber].nSize
                           - f.vinfo[fileNumber].nUndoSize,
                       nLastBlockWeCanPrune, setFilesToPrune \cup {fileNumber})

\* nLastBlockWeCanPrune is an unsigned int: below the keep window the
\* difference wraps around
FindFilesToPrune(f, nPruneAfterHeight) ==
    IF f.nPruneTarget = 0 THEN [f |-> f, setFilesToPrune |-> {}]
    ELSE IF f.tip <= nPruneAfterHeight THEN [f |-> f, setFilesToPrune |-> {}]
    ELSE IF CalculateCurrentUsage(f.vinfo) + nPruneBuffer >= f.nPruneTarget
    THEN FindFilesLoop(f, 0, CalculateCurrentUsage(f.vinfo), U32(f.tip - nKeepBelowTip), {})
    ELSE [f |-> f, setFilesToPrune |-> {}]

FilesInit ==
    /\ ChainInit
    /\ UtxoOff
    /\ StepOff
    /\ FlushOff
    /\ PoolOff
    /\ ChecksOff
    /\ RewardOff
    /\ vinfoBlockFile = [n \in 0..MaxFile |->
                              IF n = 0 THEN [AddBlock(NullFileInfo, 0) EXCEPT !.nSize = 1]
                              ELSE NullFileInfo]
    /\ nLastBlockFile = 0
    /\ pfIndex = [h \in 0..MaxFindHeight |->
                      IF h = 0 THEN [nFile |-> 0, haveData |-> TRUE, haveUndo |-> FALSE]
                      ELSE NullFileEntry]
    /\ pfTip = 0
    /\ pfCall = [op |-> "none"]

notFileVars ==
    <<chainVars, utxoVars, bestChainStep, setDirtyBlockIndex, setDirtyFileInfo,
      blockTreeDb, flushCall, poolVars, checkVars, rewardVars>>

FilesCur(nPruneTarget) ==
    [vinfo |-> vinfoBlockFile, nLast |-> nLastBlockFile, idx |-> pfIndex, tip |-> pfTip,
     nPruneTarget |-> nPruneTarget]

FilesInstall(f) ==
    /\ vinfoBlockFile' = f.vinfo
    /\ nLastBlockFile' = f.nLast
    /\ pfIndex' = f.idx

\* AcceptBlock stores the block of height h (again, when it was pruned)
DoFindBlockPos(h) ==
    /\ ~pfIndex[h].haveData
    /\ FindBlockFile(vinfoBlockFile, nLastBlockFile, 1) <= MaxFile
    /\ FilesInstall(FindBlockPos(FilesCur(0), h))
    /\ pfCall' = [op |-> "store", h |-> h]
    /\ UNCHANGED pfTip
    /\ UNCHANGED notFileVars

\* ConnectTip of the block above the tip: FindUndoPos adds the undo data to
\* the file of the block
DoFindUndoPos ==
    /\ pfTip < MaxFindHeight
    /\ pfIndex[pfTip + 1].haveData
    /\ pfTip' = pfTip + 1
    /\ pfIndex' = [pfIndex EXCEPT ![pfTip + 1].haveUndo = TRUE]
    /\ vinfoBlockFile' =
           IF pfIndex[pfTip + 1].haveUndo THEN vinfoBlockFile
           ELSE [vinfoBlockFile EXCEPT ![pfIndex[pfTip + 1].nFile].nUndoSize = @ + 1]
    /\ pfCall' = [op |-> "connect", h |-> pfTip + 1]
    /\ UNCHANGED nLastBlockFile
    /\ UNCHANGED notFileVars

\* FlushStateToDisk with fCheckForPruning
DoFindFilesToPrune(nPruneTarget, nPruneAfterHeight) ==
    /\ \E r \in {FindFilesToPrune(FilesCur(nPruneTarget), nPruneAfterHeight)} :
           /\ FilesInstall(r.f)
           /\ pfCall' = [op |-> "prune", setFilesToPrune |-> r.setFilesToPrune,
                         nPruneAfterHeight |-> nPruneAfterHeight,
                         idx |-> pfIndex, vinfo |-> vinfoBlockFile]
    /\ UNCHANGED pfTip
    /\ UNCHANGED notFileVars

PruneTargets == {0, 2, 4}

PruneAfterHeights == {0, 2}

FilesNext ==
    \/ \E h \in 1..MaxFindHeight : DoFindBlockPos(h)
    \/ DoFindUndoPos
    \/ \E nPruneTarget \in PruneTargets, nPruneAfterHeight \in PruneAfterHeights :
           DoFindFilesToPrune(nPruneTarget, nPruneAfterHeight)

SpecFiles == FilesInit /\ [][FilesNext]_vars

\* C1: a block that ConnectBlock accepted on the view of its parent is
\* disconnected with DISCONNECT_OK, and the view then holds exactly the
\* coins (output, height, coinbase flag) and the best block it held before
\* (stated for the blocks on which BIP30 is enforced)
C1_RoundTrip ==
    (uPhase = "disconnected" /\ ~uBlock.bip30Exempt) =>
        /\ uRes = "OK"
        /\ uView = uView0
        /\ uBest = "A"

(***************************************************************************)
(* Properties of the chain state                                           *)
(***************************************************************************)
\* the entries of chainActive
ActiveChain == AncestorsOf(chainTip)

\* C2: once a call has returned, no entry of chainActive has FAILED_VALID
C2_NoFailedValidInChain ==
    abcPc = "idle" => \A b \in ActiveChain : ~mapBlockIndex[b].failedValid

\* C3: setBlockIndexCandidates holds the tip and every descendant of the
\* tip that is valid up to TRANSACTIONS and has nChainTx > 0
C3_CandidatesComplete ==
    /\ chainTip \in setBlockIndexCandidates
    /\ \A d \in Descendants(chainTip) :
           (/\ mapBlockIndex[d].known
            /\ IsValid(mapBlockIndex[d], BLOCK_VALID_TRANSACTIONS)
            /\ mapBlockIndex[d].nChainTx > 0) => d \in setBlockIndexCandidates

\* C9: an entry with a failure flag has FAILED_VALID itself or has an
\* ancestor with FAILED_VALID
C9_FailedHasFailedValidAncestor ==
    \A b \in Blocks :
        Failed(mapBlockIndex[b]) => \E a \in AncestorsOf(b) : mapBlockIndex[a].failedValid

\* C10: an entry whose validity is at least TRANSACTIONS has a parent whose
\* validity is at least TRANSACTIONS
C10_ParentTransactionsValid ==
    \A b \in Blocks :
        (pprev[b] # NoBlock /\ mapBlockIndex[b].valid >= BLOCK_VALID_TRANSACTIONS)
            => mapBlockIndex[pprev[b]].valid >= BLOCK_VALID_TRANSACTIONS

\* C4: in the log of one step the disconnects come first, each of the tip
\* of the moment and none of a block of the target branch; the connects
\* follow from the fork upwards, each onto the tip of the moment
C4_DisconnectsThenConnects ==
    (stepLog # <<>> /\ stepLog[1][1] = "step") =>
        /\ \A i, j \in 2..Len(stepLog) :
               (i < j /\ stepLog[j][1] = "disconnect") => stepLog[i][1] = "disconnect"
        /\ \A i \in 2..Len(stepLog) :
               /\ stepLog[i][1] = "disconnect" => stepLog[i][2] \notin AncestorsOf(stepLog[1][2])
               /\ stepLog[i][1] = "connect" => stepLog[i][2] \in AncestorsOf(stepLog[1][2])
        /\ \A i \in 2..(Len(stepLog) - 1) :
               /\ (stepLog[i][1] = "disconnect" /\ stepLog[i + 1][1] = "disconnect")
                      => stepLog[i + 1][2] = pprev[stepLog[i][2]]
               /\ (stepLog[i][1] = "disconnect" /\ stepLog[i + 1][1] = "connect")
                      => pprev[stepLog[i + 1][2]] = pprev[stepLog[i][2]]
               /\ (stepLog[i][1] = "connect" /\ stepLog[i + 1][1] = "connect")
                      => pprev[stepLog[i + 1][2]] = stepLog[i][2]
        /\ stepLog[Len(stepLog)][1] = "disconnect" => chainTip = pprev[stepLog[Len(stepLog)][2]]
        /\ stepLog[Len(stepLog)][1] = "connect" => chainTip = stepLog[Len(stepLog)][2]

\* the reorganisation from the branch H2, H3 to the branch H2p, H3p
C4_Witness ==
    stepLog = << <<"step", "H3p">>, <<"disconnect", "H3">>, <<"disconnect", "H2">>,
                 <<"connect", "H2p">>, <<"connect", "H3p">> >>

\* the candidates whose path down to the active chain is neither failed nor
\* without data
Usable(s) == {c \in s.cand : FirstUnusable(s, c) = NoBlock}

\* C6: FindMostWorkChain returns the usable candidate with the most work
\* and, among those of equal work, the one with the smallest nSequenceId;
\* it returns none when no candidate is usable
C6_MostWorkUsable ==
    /\ Usable(Cur) = {} => FindMostWorkChain(Cur).pindex = NoBlock
    /\ Usable(Cur) # {} =>
           /\ FindMostWorkChain(Cur).pindex \in Usable(Cur)
           /\ \A c \in Usable(Cur) \ {FindMostWorkChain(Cur).pindex} :
                  \/ nChainWork(c) < nChainWork(FindMostWorkChain(Cur).pindex)
                  \/ /\ nChainWork(c) = nChainWork(FindMostWorkChain(Cur).pindex)
                     /\ mapBlockIndex[c].nSequenceId
                            > mapBlockIndex[FindMostWorkChain(Cur).pindex].nSequenceId

\* a failed branch with the most work, and two usable candidates that tie
C6_Witness ==
    /\ FindMostWorkChain(Cur).pindex # NoBlock
    /\ \E c \in setBlockIndexCandidates \ Usable(Cur) :
           nChainWork(c) > nChainWork(FindMostWorkChain(Cur).pindex)
    /\ \E c \in Usable(Cur) \ {FindMostWorkChain(Cur).pindex} :
           nChainWork(c) = nChainWork(FindMostWorkChain(Cur).pindex)

\* C8: between two holds of cs_main the best block of pcoinsTip is the tip
C8_ViewMatchesTip == coinsBest = chainTip

\* the blocks that ConnectBlock refused as invalid in the activation
Rejections == {rejected[i] : i \in 1..Len(rejected)}

C7_ReturnsMostWork == abcRet = "true" => chainTip = FindMostWorkChain(Cur).pindex

\* C10 as the code has it: an entry with nChainTx > 0 has a parent with
\* nChainTx > 0 whose validity is at least TRANSACTIONS; an entry whose
\* validity is at least TRANSACTIONS has a parent whose validity is at least
\* TREE, which may still be a header without its body
C10_LinkedParentTransactionsValid ==
    \A b \in Blocks :
        /\ (pprev[b] # NoBlock /\ mapBlockIndex[b].nChainTx > 0) =>
               /\ mapBlockIndex[pprev[b]].valid >= BLOCK_VALID_TRANSACTIONS
               /\ mapBlockIndex[pprev[b]].nChainTx > 0
        /\ (pprev[b] # NoBlock /\ mapBlockIndex[b].valid >= BLOCK_VALID_TRANSACTIONS) =>
               mapBlockIndex[pprev[b]].valid >= BLOCK_VALID_TREE

\* the body of H3 stored while H2 is a header, next to a linked H2p
C10_Witness ==
    /\ mapBlockIndex["H3"].valid >= BLOCK_VALID_TRANSACTIONS
    /\ mapBlockIndex["H2"].valid = BLOCK_VALID_TREE
    /\ mapBlockIndex["H3"].nChainTx = 0
    /\ mapBlockIndex["H2p"].nChainTx > 0

\* the entries whose body arrives in the step
BodyArrives(b) == ~mapBlockIndex[b].haveData /\ mapBlockIndex'[b].haveData

\* the entries that the step links to the genesis block
BecomesLinked(b) == mapBlockIndex[b].nChainTx = 0 /\ mapBlockIndex'[b].nChainTx > 0

C12_HaveDataIsStored ==
    \A b \in Blocks :
        mapBlockIndex[b].haveData => (mapBlockIndex[b].nTx > 0 /\ b \in blockFile)

\* C13: the nChainWork of an entry is its parent's nChainWork (0 for the
\* genesis block) plus GetBlockProof of the entry, its nHeight is the
\* parent's plus one, and no step changes either value, a restart included
C13_ChainWorkFromParent ==
    /\ [](\A b \in Blocks :
              mapBlockIndex[b].known =>
                  /\ mapBlockIndex[b].nChainWork =
                         (IF pprev[b] = NoBlock THEN 0 ELSE mapBlockIndex[pprev[b]].nChainWork)
                         + GetBlockProof[b]
                  /\ mapBlockIndex[b].nHeight =
                         (IF pprev[b] = NoBlock THEN 0 ELSE mapBlockIndex[pprev[b]].nHeight + 1)
                  /\ mapBlockIndex[b].nChainWork = nChainWork(b)
                  /\ mapBlockIndex[b].nHeight = nHeight(b))
    /\ [][\A b \in Blocks :
              mapBlockIndex[b].known =>
                  /\ mapBlockIndex'[b].known
                  /\ mapBlockIndex'[b].nChainWork = mapBlockIndex[b].nChainWork
                  /\ mapBlockIndex'[b].nHeight = mapBlockIndex[b].nHeight]_vars

\* the node was restarted with the branch of H3p in its index
C13_Witness ==
    /\ nLoad = 1
    /\ mapBlockIndex["H3p"].known
    /\ mapBlockIndex["H3p"].nChainWork = 5
    /\ mapBlockIndex["H3p"].nHeight = 3

\* C14: the validity level of an index entry never decreases, whatever the
\* operation: a failed connect, InvalidateBlock, ReconsiderBlock, a
\* disconnect or the pruning of its block file
C14_ValidityNeverDecreases ==
    [][\A b \in Blocks : mapBlockIndex'[b].valid >= mapBlockIndex[b].valid]_vars

\* a block that was connected, then invalidated, and whose file was pruned:
\* it still has the level it reached when it was connected
C14_Witness ==
    /\ nPrune = 1
    /\ \E b \in Blocks :
          /\ mapBlockIndex[b].failedValid
          /\ ~mapBlockIndex[b].haveData
          /\ mapBlockIndex[b].valid = BLOCK_VALID_SCRIPTS

\* the state of the block index: what a header submission could change
IndexState == <<mapBlockIndex, setBlockIndexCandidates, mapBlocksUnlinked, nBlockSequenceId,
                chainTip>>

\* C15: a header whose hash is already in mapBlockIndex creates no entry,
\* changes no field of the existing one and hands that entry back through
\* ppindex; a header submitted twice leaves the index that one submission
\* leaves
C15_DuplicateHeaderIdempotent ==
    /\ [](\A b \in Blocks :
            /\ mapBlockIndex[b].known =>
                  /\ AcceptBlockHeader(Cur, b).s = Cur
                  /\ AcceptBlockHeader(Cur, b).pindex = b
            /\ AcceptBlockHeader(AcceptBlockHeader(Cur, b).s, b).s = AcceptBlockHeader(Cur, b).s)
    /\ [][\A b \in Blocks :
            (mapBlockIndex[b].known /\ DoAcceptBlockHeader(b)) => UNCHANGED IndexState]_vars

\* the header of a block that is linked and in the active chain, and the
\* header of a block marked failed, are there to be submitted again
C15_Witness ==
    /\ chainTip = "H2"
    /\ mapBlockIndex["H2"].nSequenceId > 0
    /\ AcceptBlockHeader(Cur, "H2").ok
    /\ \E b \in Blocks : mapBlockIndex[b].failedValid /\ ~AcceptBlockHeader(Cur, b).ok
                            /\ AcceptBlockHeader(Cur, b).pindex = b

\* the outcomes of an AcceptBlock of b in the current state, over the bodies
\* that may be delivered for b and the failures that may strike
AcceptBlockOutcomes(b) ==
    {AcceptBlock(Cur, b, kind, fRequested, io) :
         kind \in KindsFor(b), fRequested \in BOOLEAN, io \in AcceptIoKinds}

\* what an AcceptBlock could change: the index, the block files, the bodies
StoreState == <<IndexState, blockFile, blockBody, undoFile, fRequestShutdown>>

\* C16: once an entry has HAVE_DATA a further AcceptBlock of the block
\* returns true with fNewBlock = false and changes nothing
C16_ReceivedAgainReturnsTrue ==
    \A b \in Blocks :
        mapBlockIndex[b].haveData =>
            AcceptBlockOutcomes(b) = {[s |-> Cur, ok |-> TRUE, fNewBlock |-> FALSE]}

\* C16 (amended): once an entry has HAVE_DATA a further AcceptBlock of the
\* block leaves fNewBlock false and changes nothing; it returns true unless
\* the entry is marked failed, and false when it is (the genesis block is
\* never looked up as a duplicate: for it the call returns true)
C16_ReceivedAgainChangesNothing ==
    /\ [](\A b \in Blocks :
            mapBlockIndex[b].haveData =>
                AcceptBlockOutcomes(b) =
                    {[s |-> Cur, ok |-> (b = hashGenesisBlock \/ ~Failed(mapBlockIndex[b])),
                      fNewBlock |-> FALSE]})
    /\ [][\A b \in Blocks, kind \in BodyKinds, fRequested \in BOOLEAN :
            (mapBlockIndex[b].haveData /\ DoAcceptBlock(b, kind, fRequested, "none"))
                => UNCHANGED StoreState]_vars

\* a block that has its data and whose file position is known is marked
\* failed: its body may arrive again
C16_Witness ==
    \E b \in Blocks :
        /\ mapBlockIndex[b].haveData
        /\ b \in blockFile
        /\ mapBlockIndex[b].nSequenceId > 0
        /\ mapBlockIndex[b].failedValid
        /\ b # hashGenesisBlock
        /\ \E r \in AcceptBlockOutcomes(b) : ~r.ok /\ ~r.fNewBlock

\* the result of DisconnectBlock on the active tip, as DisconnectTip calls it
TipDisconnectBlock ==
    DisconnectBlock(BlockOf(chainTip, blockBody[chainTip]), PIndex(Cur, chainTip), pcoinsTip,
                    coinsBest, undoFile[chainTip], TRUE)

\* the tip can be read from its block file
TipOnDisk == chainTip # NoBlock /\ chainTip \in blockFile

C17_AtMostBatchPerStep ==
    bestChainStep.pc # "off" => bestChainStep.nConnected <= nConnectBatch

\* C19: after a FlushStateToDisk that failed while writing, every index
\* entry and every file record that was dirty before the call is still
\* marked dirty
C19_FailedFlushKeepsMarks ==
    flushCall.ret = "abort" =>
        /\ flushCall.vBlocks \subseteq setDirtyBlockIndex
        /\ flushCall.vFiles \subseteq setDirtyFileInfo

\* C20: a shutdown requested during ActivateBestChain stops the loop between
\* two blocks: on return the tip is a block that is fully connected and is
\* the best block of the coins, and the interrupted call has changed no
\* index entry (no failure flag is set because of the interruption)
C20_ShutdownBetweenBlocks ==
    /\ []((fRequestShutdown /\ abcPc = "idle") =>
            /\ chainTip # NoBlock
            /\ coinsBest = chainTip
            /\ mapBlockIndex[chainTip].haveData
            /\ ~Failed(mapBlockIndex[chainTip])
            /\ (chainTip # hashGenesisBlock =>
                    IsValid(mapBlockIndex[chainTip], BLOCK_VALID_SCRIPTS)))
    /\ [][(fRequestShutdown /\ abcPc = "loop") =>
            /\ abcPc' = "idle"
            /\ abcRet' = "true"
            /\ UNCHANGED <<mapBlockIndex, chainTip, pcoinsTip, coinsBest,
                           setBlockIndexCandidates>>]_vars

\* the call has returned on the request with a candidate of more work than
\* the tip left to activate
C20_Witness ==
    /\ fRequestShutdown
    /\ abcPc = "idle"
    /\ abcRet = "true"
    /\ chainTip = "H1"
    /\ \E b \in setBlockIndexCandidates :
           /\ nChainWork(b) > nChainWork(chainTip)
           /\ FirstUnusable(Cur, b) = NoBlock

\* the state of a node that has accepted the headers hs, in this order
RECURSIVE WithHeaders(_, _)
WithHeaders(s, hs) ==
    IF hs = <<>> THEN s ELSE WithHeaders(AcceptBlockHeader(s, Head(hs)).s, Tail(hs))

\* the state after ProcessNewBlock for the valid bodies of bs, in this order
RECURSIVE WithBlocks(_, _)
WithBlocks(s, bs) ==
    IF bs = <<>> THEN s
    ELSE WithBlocks(ProcessNewBlock(s, Head(bs), "plain", TRUE).s, Tail(bs))

\* b is the tip, stored, connected, and its coinbase output is in the coins
ConnectedAsTip(s, b) ==
    /\ s.tip = b
    /\ s.best = b
    /\ s.idx[b].haveData
    /\ s.idx[b].haveUndo
    /\ s.idx[b].valid = BLOCK_VALID_SCRIPTS
    /\ HaveCoin(s.coins, <<b, 0>>)

\* a delivery of b is a valid block that extends the tip
ExtendsTip(b) ==
    /\ chainTip # NoBlock
    /\ pprev[b] = chainTip
    /\ blockBody[b] \in {NoBody, "plain"}

ConnectedInChain(s, b) ==
    /\ Contains(s, b)
    /\ s.best = s.tip
    /\ s.idx[b].haveData
    /\ s.idx[b].haveUndo
    /\ s.idx[b].valid = BLOCK_VALID_SCRIPTS
    /\ HaveCoin(s.coins, <<b, 0>>)

\* no candidate has more work than the tip: nothing is left to activate
TipIsBest == \A c \in setBlockIndexCandidates : nChainWork(c) <= nChainWork(chainTip)

C22_ReloadKeepsChain ==
    [][nLoad' = nLoad + 1 =>
          /\ chainTip' = chainTip
          /\ \A b \in Blocks :
                 /\ mapBlockIndex'[b].known = mapBlockIndex[b].known
                 /\ mapBlockIndex'[b].nChainWork = mapBlockIndex[b].nChainWork
          /\ pcoinsTip' = pcoinsTip
          /\ coinsBest' = coinsBest
          /\ chainTip' \in setBlockIndexCandidates']_vars

\* the coins that the connected block has spent, as its undo data record them
SpentCoins == UNION {{uUndo[i][j] : j \in 1..Len(uUndo[i])} : i \in 1..Len(uUndo)}

\* tx spends from view a coinbase output made fewer than COINBASE_MATURITY
\* blocks below nSpendHeight
SpendsImmature(tx, view, nSpendHeight) ==
    \E j \in 1..Len(tx.vin) :
        /\ view[tx.vin[j]].fCoinBase
        /\ nSpendHeight - view[tx.vin[j]].nHeight < COINBASE_MATURITY

\* C23: no connected block spends a coinbase output made fewer than 100
\* blocks below it, and CheckTxInputs refuses such a spend with
\* bad-txns-premature-spend-of-coinbase
C23_CoinbaseMaturity ==
    /\ uPhase \in {"connected", "disconnected"} =>
           \A c \in SpentCoins : c.fCoinBase => uBlock.nHeight - c.nHeight >= COINBASE_MATURITY
    /\ uPhase = "start" =>
           \A i \in 1..Len(uBlock.vtx) :
               (HaveInputs(uView, uBlock.vtx[i]) /\ ~IsCoinBase(uBlock.vtx[i])
                /\ ~IsZerocoinSpend(uBlock.vtx[i])
                /\ SpendsImmature(uBlock.vtx[i], uView, uBlock.nHeight))
                   => CheckTxInputs(uBlock.vtx[i], uView, uBlock.nHeight) =
                          "bad-txns-premature-spend-of-coinbase"

\* a connected block has spent a coinbase output exactly COINBASE_MATURITY
\* blocks below it
C23_Witness ==
    /\ uPhase = "connected"
    /\ \E c \in SpentCoins : c.fCoinBase /\ uBlock.nHeight - c.nHeight = COINBASE_MATURITY

\* the transactions of version 2 or more whose only input carries a relative
\* lock by height, and the depth n of the lock
HeightLocked(tx) ==
    /\ tx.nVersion >= 2
    /\ Len(tx.vin) = 1
    /\ ~HasFlag(tx.nSequence[1], SEQUENCE_LOCKTIME_DISABLE_FLAG)
    /\ ~HasFlag(tx.nSequence[1], SEQUENCE_LOCKTIME_TYPE_FLAG)
    /\ LockValue(tx.nSequence[1]) > 0

\* the transaction arrives at an empty pool and spends a confirmed coin
ArrivesOnConfirmed(tx, env) ==
    /\ HeightLocked(tx)
    /\ mpTx = {}
    /\ HaveCoin(mpCoins, tx.vin[1])
    /\ DoAcceptToMemoryPool(tx, env)

\* C24: a transaction of version 2 or more that spends a coin confirmed at
\* height h under a relative lock of n blocks is rejected as non-BIP68-final
\* while the tip is at height h + n - 1 and accepted once the tip is at h + n
C24_LockedUntilDepth ==
    [][\A tx \in PoolTxs, env \in PoolEnvs :
           ArrivesOnConfirmed(tx, env) =>
               /\ mpHeight = mpCoins[tx.vin[1]].nHeight + LockValue(tx.nSequence[1]) - 1
                      => (~mpCall'.ret /\ mpCall'.reason = "non-BIP68-final")
               /\ mpHeight = mpCoins[tx.vin[1]].nHeight + LockValue(tx.nSequence[1])
                      => mpCall'.ret]_vars

\* C24 as the code has it: the transaction is rejected as non-BIP68-final
\* while the tip is at height h + n - 2 or below and accepted once the tip is
\* at h + n - 1, when the block at h + n can hold it
C24_LockedUntilNextBlock ==
    [][\A tx \in PoolTxs, env \in PoolEnvs :
           ArrivesOnConfirmed(tx, env) =>
               /\ mpHeight <= mpCoins[tx.vin[1]].nHeight + LockValue(tx.nSequence[1]) - 2
                      => (~mpCall'.ret /\ mpCall'.reason = "non-BIP68-final")
               /\ mpHeight >= mpCoins[tx.vin[1]].nHeight + LockValue(tx.nSequence[1]) - 1
                      => mpCall'.ret]_vars

\* T7 was refused at the start and is in the pool after one more block
C24_Witness ==
    /\ mpCall.op = "accept" /\ mpCall.tx = "T7" /\ mpCall.ret
    /\ mpHeight = mpCoins[<<"A", 0>>].nHeight + PoolLock - 1
    /\ \E e \in mpTx : e.tx.hash = "T7" /\ HeightLocked(e.tx)

\* the outpoints the entries of the pool spend
SpendsOf(e) == {e.tx.vin[j] : j \in 1..Len(e.tx.vin)}

\* C25: no two transactions of the pool spend the same outpoint; a
\* transaction that conflicts with the pool is admitted only as a replacement,
\* and an accepted replacement evicts every directly conflicting entry with
\* all its in-pool descendants before it is inserted
C25_NoDoubleSpendInPool ==
    /\ [](\A e1 \in mpTx, e2 \in mpTx : e1 # e2 => SpendsOf(e1) \cap SpendsOf(e2) = {})
    /\ [][\A tx \in PoolTxs, env \in PoolEnvs :
              (DoAcceptToMemoryPool(tx, env) /\ mpCall'.ret /\ ~env.fDryRun) =>
                  /\ mpCall'.evicted
                       = PoolHashes(CalculateDescendants(mpTx, Conflicting(mpTx, tx)))
                  /\ PoolHashes(mpTx') = (PoolHashes(mpTx) \ mpCall'.evicted) \cup {tx.hash}
                  /\ Conflicting(mpTx, tx) # {} =>
                         /\ fEnableReplacement
                         /\ \A e \in Conflicting(mpTx, tx) : SignalsReplacement(e.tx)]_vars

\* T2 replaced T1, and T3, which spent T1, left with it
C25_Witness ==
    /\ mpCall.op = "accept" /\ mpCall.ret
    /\ mpCall.evicted = {"T1", "T3"}
    /\ PoolHashes(mpTx) = {mpCall.tx}

\* the checks AcceptToMemoryPoolWorker makes before it looks for conflicts
PassesEarlierChecks(tx) ==
    /\ CheckTransaction(tx, mpHeight + 1)
    /\ ~IsCoinBase(tx)
    /\ CheckFinalTx(PoolCur, tx)
    /\ tx.hash \notin PoolHashes(mpTx)

\* every input of the transaction has nSequence max - 1 or max
NoInputSignals(tx) ==
    \A j \in 1..Len(tx.vin) :
        tx.nSequence[j] \in {SEQUENCE_FINAL, Seq32(SEQUENCE_FINAL.hi, SEQUENCE_FINAL.lo - 1)}

PoolFee(tx) == ValueInFrom(ViewMemPool(mpCoins, mpTx), tx.vin, 1) - GetValueOut(tx)

\* C27: an accepted replacement pays at least the modified fees of all the
\* entries it evicts (the direct conflicts and their descendants) plus
\* minRelayTxFee.GetFee of its own size, and its fee rate is strictly greater
\* than that of each directly conflicting entry
C27_ReplacementPaysMore ==
    [][\A tx \in PoolTxs, env \in PoolEnvs :
           (DoAcceptToMemoryPool(tx, env) /\ mpCall'.ret /\ Conflicting(mpTx, tx) # {}) =>
               /\ PoolFee(tx) >= SumModifiedFees(CalculateDescendants(mpTx, Conflicting(mpTx, tx)))
                                   + GetFee(minRelayTxFee, tx.nSize)
               /\ \A e \in Conflicting(mpTx, tx) :
                      PoolFee(tx) * e.tx.nSize > e.nModifiedFees * tx.nSize]_vars

\* T9 replaced both T1, with its child T3, and T4
C27_Witness ==
    /\ mpCall.op = "accept" /\ mpCall.ret /\ mpCall.tx = "T9"
    /\ mpCall.evicted = {"T1", "T3", "T4"}
    /\ \E e \in mpTx : e.tx.hash = "T9" /\ e.nModifiedFees >= 2500 + GetFee(minRelayTxFee, e.tx.nSize)

\* the transactions of the blocks of the chain above PoolHeight0
ChainTxs(blocks) ==
    UNION {{blocks[i].block.vtx[k] : k \in 1..Len(blocks[i].block.vtx)} : i \in 1..Len(blocks)}

\* no entry of the pool is, or spends an input of, one of the transactions
ClearOf(pool, txs) ==
    \A e \in pool : \A tx \in txs :
        /\ e.tx.hash # tx.hash
        /\ SpendsOf(e) \cap {tx.vin[j] : j \in 1..Len(tx.vin)} = {}

\* C28: after a successful ConnectTip no transaction of the connected block
\* and no transaction that conflicts with one of its inputs is in the pool;
\* whenever cs_main is released no transaction of the pool is in the active
\* chain
C28_PoolClearOfChain ==
    /\ ClearOf(mpTx, ChainTxs(mpBlocks))
    /\ \A txs \in PoolBlockLists :
           Let(PoolConnectTip(PoolCur, PoolBlock(PoolCur, txs)),
               LAMBDA r : r.ok => ClearOf(r.c.pool,
                                          {txs[k] : k \in 1..Len(txs)}
                                              \cup ChainTxs(r.c.blocks)))

\* the pool holds T1, its child T3 and T4; the block that holds T2 connects
\* and leaves T4 alone in the pool
C28_Witness ==
    /\ PoolHashes(mpTx) = {"T1", "T3", "T4"}
    /\ \E tx \in PoolTxs :
           /\ tx.hash = "T2"
           /\ PoolConnectTip(PoolCur, PoolBlock(PoolCur, <<tx>>)).ok
           /\ PoolHashes(PoolConnectTip(PoolCur, PoolBlock(PoolCur, <<tx>>)).c.pool) = {"T4"}

\* the entry can be mined in the block after the tip: final, and every
\* coinbase it spends mature at that height
MinableNext(e) ==
    /\ IsFinalTx(e.tx, mpHeight' + 1)
    /\ \A j \in 1..Len(e.tx.vin) :
           (HaveCoin(mpCoins', e.tx.vin[j]) /\ mpCoins'[e.tx.vin[j]].fCoinBase)
               => mpHeight' + 1 - mpCoins'[e.tx.vin[j]].nHeight >= COINBASE_MATURITY

\* C29: on every path that disconnects blocks (ActivateBestChainStep,
\* InvalidateBlock, DisconnectBlocks) removeForReorg has run against the new
\* tip when cs_main is released, so that no entry that is non-final or spends
\* an immature coinbase at the height after the new tip is left in the pool
C29_ReorgLeavesPoolMinable ==
    [][(mpCall'.op \in {"step", "invalidate", "disconnect"} /\ mpCall'.nDisconnect > 0)
           => \A e \in mpTx' : MinableNext(e)]_vars

\* the outpoints that existed and have been spent by the chain
SpentByChain ==
    PoolSpent0 \cup UNION {{tx.vin[j] : j \in 1..Len(tx.vin)} : tx \in ChainTxs(mpBlocks)}

\* the transaction reaches the lookup of its inputs
ReachesInputs(tx) ==
    /\ PassesEarlierChecks(tx)
    /\ Conflicting(mpTx, tx) = {}
    /\ \A i \in 1..Len(tx.vout) : ~HaveCoin(ViewMemPool(mpCoins, mpTx), <<tx.hash, i - 1>>)

MissingOf(tx) ==
    {tx.vin[j] : j \in 1..Len(tx.vin)} \ DOMAIN ViewMemPool(mpCoins, mpTx)

\* C30: AcceptToMemoryPool reports a transaction with an input that never
\* existed as missing inputs (pfMissingInputs true, the state not invalid),
\* and a transaction with an input that existed and is spent as invalid with
\* bad-txns-inputs-spent and pfMissingInputs false
C30_MissingAndSpentApart ==
    [][\A tx \in PoolTxs, env \in PoolEnvs :
           (DoAcceptToMemoryPool(tx, env) /\ ReachesInputs(tx) /\ MissingOf(tx) # {}) =>
               /\ MissingOf(tx) \cap SpentByChain = {}
                      => (~mpCall'.ret /\ mpCall'.fMissingInputs /\ mpCall'.reason = "")
               /\ MissingOf(tx) \subseteq SpentByChain
                      => (~mpCall'.ret /\ ~mpCall'.fMissingInputs
                            /\ mpCall'.reason = "bad-txns-inputs-spent")]_vars

\* the transaction is in the pool and still passes the checks made before
\* the pool is asked for it
KnownToPool(tx) ==
    /\ tx.hash \in PoolHashes(mpTx)
    /\ CheckTransaction(tx, mpHeight + 1)
    /\ ~IsCoinBase(tx)
    /\ CheckFinalTx(PoolCur, tx)

SawFalse == cqCtl.master.sawFalse \/ \E w \in 1..nScriptWorkers : cqWorker[w].sawFalse

\* C32: with the script-check queue in use ConnectBlock returns true only if
\* every queued script check of the block returned true; if a check returned
\* false in any thread the block fails, and then no undo data is written,
\* HAVE_UNDO is not set, the validity is not raised and the view's best
\* block is not moved, whatever the interleaving of workers and controller;
\* when ConnectBlock returns the queue is quiescent
C32_ScriptChecksDecide ==
    cqCtl.pc = "done" =>
        /\ cqCtl.ret =>
               \A i \in 1..Len(cqCtl.block.vtx) :
                   \A k \in 1..Len(cqCtl.block.vtx[i].scripts) : cqCtl.block.vtx[i].scripts[k]
        /\ SawFalse => ~cqCtl.ret
        /\ ~cqCtl.ret =>
               /\ ~cqCtl.undoWritten
               /\ cqCtl.pindex = cqCtl.pindex0
               /\ cqCtl.best = "prev"
        /\ cqQueue = <<>> /\ nTodo = 0 /\ fAllOk
        /\ \A w \in 1..nScriptWorkers : cqWorker[w].pc = "wait"

\* a block whose only failure is a script, found false by a worker thread
\* while the controller went on, has been refused
C32_Witness ==
    /\ cqCtl.pc = "done" /\ ~cqCtl.ret /\ cqCtl.after = "finish"
    /\ ~cqCtl.fJustCheck /\ ~cqCtl.pindex0.haveUndo
    /\ Len(cqCtl.block.vtx) = 2
    /\ ~cqCtl.master.sawFalse
    /\ \E w \in 1..nScriptWorkers : cqWorker[w].sawFalse

\* the reward schedule in whole coins
RewardSchedule(h) ==
    IF h = 0 THEN 0
    ELSE IF h <= 143499 THEN 5000
    ELSE IF h <= 717499999
    THEN FloorHalfUp(5000 * 143500, h + 1)
    ELSE 0

\* C33: the subsidy at height h is 0 at h = 0, 5000 coins for 1 <= h <=
\* 143499, 5000 * 143500 / (h + 1) coins rounded half up for 143500 <= h <=
\* 717499999 and 0 above; GetBlockSubsidy(h) and GetBlockValue(h, 0) both
\* equal it
C33_RewardSchedule ==
    /\ rwCall.op = "subsidy" => rwCall.ret = RewardSchedule(rwCall.nHeight)
    /\ (rwCall.op = "value" /\ rwCall.nFees = 0) => rwCall.ret = RewardSchedule(rwCall.nHeight)

\* the entries that were stored in file n when FindFilesToPrune was called
StoredIn(n) == {h \in DOMAIN pfCall.idx : pfCall.idx[h].nFile = n /\ pfCall.idx[h].haveData}

\* C34: FindFilesToPrune never selects the current last block file nor a
\* file that holds a block higher than the tip height less the keep window,
\* at every tip height above nPruneAfterHeight, those below the keep window
\* included; a file is pruned as a whole: its record is null and every entry
\* stored in it loses HAVE_DATA and HAVE_UNDO, and no other entry changes
C34_PruneKeepsWindow ==
    pfCall.op = "prune" =>
        /\ \A n \in pfCall.setFilesToPrune :
               /\ n # nLastBlockFile
               /\ \A h \in StoredIn(n) : h <= pfTip - nKeepBelowTip
               /\ \A h \in StoredIn(n) : ~pfIndex[h].haveData /\ ~pfIndex[h].haveUndo
               /\ vinfoBlockFile[n] = NullFileInfo
        /\ \A h \in DOMAIN pfIndex :
               (\A n \in pfCall.setFilesToPrune : h \notin StoredIn(n))
                   => pfIndex[h] = pfCall.idx[h]
        /\ pfCall.setFilesToPrune # {} => pfTip > pfCall.nPruneAfterHeight

\* the body of b and the bodies of all its ancestors were received
AllBodiesReceived(b) == \A a \in AncestorsOf(b) : mapBlockIndex[a].nTx > 0

InUnlinked(b) == \E k \in 1..Len(mapBlocksUnlinked) : mapBlocksUnlinked[k] = b

\* C35: nChainTx is not 0 exactly for the entries that have, with all their
\* ancestors, nTx > 0, and nSequenceId is not 0 only if nChainTx is not 0; a
\* body received before the body of an ancestor waits in mapBlocksUnlinked,
\* and the entry is linked in the step in which the last missing body of an
\* ancestor arrives
C35_LinkedIffBodiesReceived ==
    /\ [](\A b \in Blocks :
              /\ mapBlockIndex[b].nChainTx # 0 <=> AllBodiesReceived(b)
              /\ mapBlockIndex[b].nSequenceId # 0 => mapBlockIndex[b].nChainTx # 0
              /\ (mapBlockIndex[b].nTx > 0 /\ ~AllBodiesReceived(b)) => InUnlinked(b))
    /\ [][\A b \in Blocks :
              BecomesLinked(b) <=>
                  /\ mapBlockIndex'[b].nTx > 0
                  /\ \E a \in AncestorsOf(b) : mapBlockIndex[a].nTx = 0
                  /\ \A a \in AncestorsOf(b) : mapBlockIndex'[a].nTx > 0]_vars

\* the deliveries of a body for b that AcceptBlock rejects after its checks
RejectedDeliveries(b) ==
    {d \in [kind : KindsFor(b), fRequested : BOOLEAN, io : AcceptIoKinds] :
        LET r == AcceptBlock(Cur, b, d.kind, d.fRequested, d.io)
        IN  ~r.ok /\ r.fNewBlock}

\* after the rejection of delivery d the entry of b carries no new failure
\* mark, and the body the header commits to, when it is itself well formed,
\* is accepted and stored on a requested delivery
SparedBy(b, d) ==
    LET r == AcceptBlock(Cur, b, d.kind, d.fRequested, d.io)
        g == AcceptBlock(r.s, b, d.kind, TRUE, "none")
    IN  /\ r.s.idx[b].failedValid = mapBlockIndex[b].failedValid
        /\ ~Failed(r.s.idx[b])
        /\ CheckBlocks(Delivered(b, d.kind, "none")) = "ok"
               => g.ok /\ g.fNewBlock /\ g.s.idx[b].haveData /\ b \in g.s.disk

\* the rejection of delivery d marks the entry of b BLOCK_FAILED_VALID
MarkedBy(b, d) == AcceptBlock(Cur, b, d.kind, d.fRequested, d.io).s.idx[b].failedValid

\* C36: a block that CheckBlock rejects for a tampered merkle tree is not
\* marked failed and its genuine body is still accepted and stored later;
\* every other rejection by the checks of AcceptBlock marks the entry
\* BLOCK_FAILED_VALID
C36_OnlyMerkleSpared ==
    \A b \in Blocks : \A d \in RejectedDeliveries(b) :
        IF d.io = "mutated" THEN SparedBy(b, d) ELSE MarkedBy(b, d)

\* C36 (amended): a block rejected with corruption possible, by CheckBlock
\* for a tampered merkle tree or by ContextualCheckBlock for its witness
\* data, is not marked failed and its genuine body is still accepted and
\* stored later; every other rejection by the checks of AcceptBlock marks
\* the entry BLOCK_FAILED_VALID
C36_CorruptionSpared ==
    \A b \in Blocks : \A d \in RejectedDeliveries(b) :
        IF CheckBlocks(Delivered(b, d.kind, d.io)) = "corrupt"
        THEN SparedBy(b, d) /\ d.io \in {"mutated", "witness"}
        ELSE MarkedBy(b, d)

\* a header without its body for which a delivery with witness data and a
\* delivery with a tampered merkle tree are rejected and the genuine body is
\* then stored, next to a block that a malformed body has marked failed
C36_Witness ==
    /\ \E b \in Blocks :
          /\ mapBlockIndex[b].known /\ ~mapBlockIndex[b].haveData
          /\ \E d \in RejectedDeliveries(b) : d.io = "witness" /\ SparedBy(b, d)
          /\ \E d \in RejectedDeliveries(b) : d.io = "mutated" /\ SparedBy(b, d)
          /\ AcceptBlock(Cur, b, "plain", TRUE, "none").s.idx[b].haveData
    /\ \E b \in Blocks :
          mapBlockIndex[b].failedValid /\ blockBody[b] = "malformed" /\ b \notin blockFile

\* C37: TestBlockValidity leaves the chain state as it was, whatever it
\* returns: the coins and the best block of pcoinsTip, the active chain, the
\* index entries, the undo data, the candidates and the dirty sets
C37_TestBlockValidityChangesNothing ==
    [][UTestBlockValidity =>
          UNCHANGED <<uView, uBest, uIndex, uUndo, chainVars,
                      setDirtyBlockIndex, setDirtyFileInfo>>]_vars

\* TestBlockValidity has accepted a block that spends a coin of the view
C37_Witness ==
    /\ uPhase = "tested"
    /\ uRes = "ok"
    /\ \E i \in 2..Len(uBlock.vtx) : \E j \in 1..Len(uBlock.vtx[i].vin) :
           uBlock.vtx[i].vin[j] \in DOMAIN uView

\* InvalidateBlock(b), ActivateBestChain, ReconsiderBlock(b), ActivateBestChain
\* with nothing arriving in between
InvalidateReconsider(s, b) ==
    ActivateBestChain(
        ReconsiderBlock(
            ActivateBestChain(InvalidateBlock(s, b, NoIo).s, NoBlock, NoIo).s, b),
        NoBlock, NoIo).s

\* b, its ancestors and its descendants
Lineage(b) == AncestorsOf(b) \cup Descendants(b)

\* no call is running and ActivateBestChain has nothing left to do: the tip
\* is the best of the entries it could connect
Settled ==
    /\ Idle
    /\ ActivateBestChain(Fresh, NoBlock, NoIo).s = Fresh
    /\ \A e \in Blocks :
          (/\ mapBlockIndex[e].known
           /\ IsValid(mapBlockIndex[e], BLOCK_VALID_TRANSACTIONS)
           /\ mapBlockIndex[e].nChainTx > 0) => ~CBlockIndexWorkComparator(Cur, chainTip, e)

\* b is known, and neither b nor an ancestor or descendant of it carries a
\* failure flag or a body that the rules refuse
Sound(b) ==
    /\ mapBlockIndex[b].known
    /\ \A x \in Lineage(b) :
          ~Failed(mapBlockIndex[x]) /\ blockBody[x] \notin {"bad", "malformed"}

\* C38: with nothing arriving in between, InvalidateBlock(b), ActivateBestChain,
\* ReconsiderBlock(b), ActivateBestChain bring back the active tip there was
\* and leave no failure flag on b, its ancestors and its descendants
C38_InvalidateReconsiderRestores ==
    \A b \in Blocks :
        (Settled /\ Sound(b)) =>
            /\ InvalidateReconsider(Fresh, b).tip = chainTip
            /\ \A x \in Lineage(b) : ~Failed(InvalidateReconsider(Fresh, b).idx[x])

\* the three conditions on an unrequested block, on the entry of b as the
\* header check leaves it
FirstSeen(b) == mapBlockIndex[b].nTx = 0

HasMoreWork(b) == nChainWork(b) > nChainWork(chainTip)

TooFarAhead(b) == nHeight(b) > nHeight(chainTip) + nKeepBelowTip

\* the deliveries of a body for b whose header AcceptBlockHeader lets through
\* while the entry has no data
Deliveries(b) ==
    {kind \in KindsFor(b) :
        AcceptBlockHeader(Cur, b).ok /\ ~mapBlockIndex[b].haveData}

\* C39: an unrequested block is stored only if its entry has nTx = 0, its
\* chain work exceeds the tip's and its height is at most the tip's plus
\* MIN_BLOCKS_TO_KEEP; otherwise AcceptBlock returns true with fNewBlock
\* false and leaves the data flags of the entry and the candidates alone; a
\* requested block passes whatever the three conditions say
C39_UnrequestedGate ==
    \A b \in Blocks : \A kind \in Deliveries(b) :
        LET u == AcceptBlock(Cur, b, kind, FALSE, "none")
            r == AcceptBlock(Cur, b, kind, TRUE, "none")
            fPass == FirstSeen(b) /\ HasMoreWork(b) /\ ~TooFarAhead(b)
        IN  /\ u.s.idx[b].haveData => fPass
            /\ ~fPass =>
                  /\ u.ok /\ ~u.fNewBlock
                  /\ u.s.idx[b].haveData = mapBlockIndex[b].haveData
                  /\ u.s.idx[b].nTx = mapBlockIndex[b].nTx
                  /\ u.s.idx[b].nChainTx = mapBlockIndex[b].nChainTx
                  /\ u.s.cand = setBlockIndexCandidates
                  /\ u.s.disk = blockFile
            /\ fPass => u = r
            /\ r.fNewBlock
            /\ CheckBlocks(Delivered(b, kind, "none")) = "ok" => r.ok /\ r.s.idx[b].haveData

\* a pruned block, a block with no more work than the tip and a block too
\* far ahead of the tip are refused unrequested and stored when requested
C39_Witness ==
    /\ \E b \in Blocks : \E kind \in Deliveries(b) :
          /\ ~FirstSeen(b)
          /\ ~AcceptBlock(Cur, b, kind, FALSE, "none").fNewBlock
          /\ AcceptBlock(Cur, b, kind, TRUE, "none").s.idx[b].haveData
    /\ \E b \in Blocks : \E kind \in Deliveries(b) :
          /\ FirstSeen(b) /\ ~HasMoreWork(b) /\ ~TooFarAhead(b)
          /\ ~AcceptBlock(Cur, b, kind, FALSE, "none").fNewBlock
          /\ AcceptBlock(Cur, b, kind, TRUE, "none").s.idx[b].haveData

\* C40: a dry run and every rejected admission leave the transactions of the
\* pool as they were, and the entries that conflict with a replacement leave
\* the pool only in an admission that is no dry run, passed the fee rules
\* and the script verification and put the replacement in the pool
C40_RejectedLeavesPool ==
    [][\A tx \in PoolTxs, env \in PoolEnvs :
          DoAcceptToMemoryPool(tx, env) =>
              /\ (env.fDryRun \/ ~mpCall'.ret) => mpTx' = mpTx /\ mpCall'.evicted = {}
              /\ (mpTx' # mpTx \/ mpCall'.evicted # {}) =>
                    /\ mpCall'.ret /\ ~env.fDryRun
                    /\ tx.scriptOk
                    /\ CheckInputs(tx, ViewMemPool(mpCoins, mpTx), mpHeight + 1) = ""
                    /\ tx.hash \in PoolHashes(mpTx')
                    /\ mpCall'.evicted = PoolHashes(mpTx) \ PoolHashes(mpTx')]_vars

\* a replacement that passed the fee rules was refused for its script: the
\* entry it conflicts with is still in the pool
C40_Witness ==
    /\ mpCall.op = "accept"
    /\ ~mpCall.ret
    /\ mpCall.reason = "mandatory-script-verify-flag-failed"
    /\ \E e \in mpTx : SignalsReplacement(e.tx)
                          /\ \E tx \in PoolTxs : tx.hash = mpCall.tx /\ e \in Conflicting(mpTx, tx)

====
